---- MODULE Spec2Model ----
(***************************************************************************)
(* A model of the featurewise transform library:                           *)
(*   featurewise/imputation.py  MissingValueImputation                     *)
(*   featurewise/encoding.py    FeatureEncoding                            *)
(*   featurewise/feature_creation.py  PolynomialFeaturesTransformer,       *)
(*                              AggregationTransformer, BinningTransformer *)
(* Tables are pandas DataFrames: a row index and an ordered list of        *)
(* columns.  Cell values are exact rationals, texts (sequences of          *)
(* characters, so that lexicographic order and name building are           *)
(* computed) or the missing marker NaN.                                    *)
(***************************************************************************)
EXTENDS Integers, Sequences, FiniteSets, TLC

VARIABLES
    strategies,   \* MissingValueImputation.strategies: ordered <<column, strategy>> entries
    fill_values,  \* MissingValueImputation.fill_values: ordered <<column, value>> entries
    df,           \* the caller's table object handed to the last call, after the call
    df_pre,       \* the same table object as it was before that call
    op,           \* the last call made
    err,          \* how the last call ended: "ok" or the error raised
    held,         \* FeatureEncoding.df: the table the encoder holds
    held_pre,     \* the held table before the last encoder call
    columns,      \* the column list passed to the last encoder call
    self,         \* the attributes of the feature_creation transformer object
    arg,          \* the arguments of the last constructor call or degree override
    ret,          \* the table the last feature_creation call returned
    last_valid,   \* the most recent valid degree passed to the polynomial transformer
    encoded       \* the columns label-encoded so far, by the table object written

vars == <<strategies, fill_values, df, df_pre, op, err, held, held_pre, columns,
          self, arg, ret, last_valid, encoded>>

impVars == <<strategies, fill_values, df, df_pre>>
encVars == <<held, held_pre, columns, encoded>>
fcVars == <<self, arg, ret, last_valid>>

(***************************************************************************)
(* Bounds of the model.                                                    *)
(***************************************************************************)
MaxRows == 3

(***************************************************************************)
(* Values.                                                                 *)
(***************************************************************************)
NaN == [k |-> "nan", n |-> 0, d |-> 1, s |-> <<>>]

RECURSIVE Gcd(_, _)
Gcd(x, y) == IF y = 0 THEN x ELSE Gcd(y, x % y)

\* The rational n/d in lowest terms (values of the model are non-negative).
Number(n, d) ==
    LET g == Gcd(n, d)
    IN  [k |-> "num", n |-> n \div g, d |-> d \div g, s |-> <<>>]

Text(s) == [k |-> "str", n |-> 0, d |-> 1, s |-> s]

isna(v) == v.k = "nan"

\* Character codes, for the order of Python strings.
Ord(c) ==
    CASE c = "_" -> 95
      [] c = "a" -> 97
      [] c = "b" -> 98
      [] c = "d" -> 100
      [] c = "e" -> 101
      [] c = "i" -> 105
      [] c = "m" -> 109
      [] c = "n" -> 110
      [] c = "o" -> 111
      [] c = "t" -> 116
      [] c = "x" -> 120
      [] c = "y" -> 121
      [] c = "z" -> 122

RECURSIVE StrLess(_, _)
StrLess(s, t) ==
    IF s = <<>> THEN t # <<>>
    ELSE IF t = <<>> THEN FALSE
    ELSE IF Head(s) = Head(t) THEN StrLess(Tail(s), Tail(t))
    ELSE Ord(Head(s)) < Ord(Head(t))

\* The order sorting uses: numbers by value, texts lexicographically, the
\* missing value after everything else.  (Numbers and texts are never
\* sorted together in the model: Python refuses to compare them.)
ValLess(x, y) ==
    CASE isna(x) -> FALSE
      [] isna(y) -> TRUE
      [] x.k = "num" /\ y.k = "num" -> x.n * y.d < y.n * x.d
      [] x.k = "str" /\ y.k = "str" -> StrLess(x.s, y.s)
      [] OTHER -> x.k = "num"

Range(f) == {f[i] : i \in DOMAIN f}

MinOf(S) == CHOOSE x \in S : \A y \in S \ {x} : ValLess(x, y)

\* The distinct values of S in ascending order.
RECURSIVE SortedSet(_)
SortedSet(S) ==
    IF S = {} THEN <<>>
    ELSE LET m == MinOf(S) IN <<m>> \o SortedSet(S \ {m})

IndexOf(seq, x) == CHOOSE i \in DOMAIN seq : seq[i] = x

\* seq without its missing values (skipna / dropna).
dropna(seq) == SelectSeq(seq, LAMBDA v : ~isna(v))

Count(seq, x) == Cardinality({i \in DOMAIN seq : seq[i] = x})

\* The values of seq in ascending order, repetitions kept.
RECURSIVE SortedSeq(_)
SortedSeq(seq) ==
    IF seq = <<>> THEN <<>>
    ELSE LET m == MinOf(Range(seq))
             i == IndexOf(seq, m)
         IN  <<m>> \o SortedSeq(SubSeq(seq, 1, i - 1) \o SubSeq(seq, i + 1, Len(seq)))

RECURSIVE SumSeq(_)
SumSeq(seq) ==
    IF seq = <<>> THEN Number(0, 1)
    ELSE LET h == Head(seq)
             r == SumSeq(Tail(seq))
         IN  Number(h.n * r.d + r.n * h.d, h.d * r.d)

(***************************************************************************)
(* Tables.                                                                 *)
(***************************************************************************)
Column(name, kind, cells) == [name |-> name, kind |-> kind, cells |-> cells]

Table(index, cols) == [index |-> index, cols |-> cols]

\* pandas' default RangeIndex of n rows.
RangeIndex(n) == [i \in 1..n |-> i - 1]

ColumnNames(t) == [i \in DOMAIN t.cols |-> t.cols[i].name]

HasColumn(t, name) == \E i \in DOMAIN t.cols : t.cols[i].name = name

\* df[column]: the (first) column of that name.
GetColumn(t, name) == t.cols[CHOOSE i \in DOMAIN t.cols : t.cols[i].name = name]

\* df[column] = cells: overwrites the column in place, keeping its position.
SetColumn(t, name, kind, cells) ==
    [t EXCEPT !.cols = [i \in DOMAIN t.cols |->
        IF t.cols[i].name = name THEN Column(name, kind, cells) ELSE t.cols[i]]]

NoTable == Table(<<>>, <<>>)

(***************************************************************************)
(* Python dicts keep insertion order; assigning an existing key keeps its  *)
(* position.  A dict is a sequence of <<key, value>> entries.              *)
(***************************************************************************)
DictKeys(dict) == {dict[i][1] : i \in DOMAIN dict}

DictGet(dict, key) == dict[CHOOSE i \in DOMAIN dict : dict[i][1] = key][2]

DictSet(dict, key, value) ==
    IF key \in DictKeys(dict)
    THEN [i \in DOMAIN dict |-> IF dict[i][1] = key THEN <<key, value>> ELSE dict[i]]
    ELSE Append(dict, <<key, value>>)

\* Python's None, as an argument or an attribute.
None == [k |-> "none", n |-> 0, d |-> 1, s |-> <<>>]

\* No column has been label-encoded: none in the table the encoder holds,
\* none in the caller's table, none at all.
NoneEncoded == [held |-> {}, caller |-> {}, any |-> {}]

\* No feature_creation transformer has been constructed.
NoTransformer ==
    /\ self = None
    /\ arg = None
    /\ ret = NoTable
    /\ last_valid = None

(***************************************************************************)
(* featurewise/imputation.py                                               *)
(***************************************************************************)
StrMean == <<"m", "e", "a", "n">>
StrMedian == <<"m", "e", "d", "i", "a", "n">>
StrMode == <<"m", "o", "d", "e">>

\* isinstance(strategy, (int, float))
IsNumber(strategy) == strategy.k = "num"

\* dtype.kind in 'bifc'
IsNumericDtype(col) == col.kind = "num"

\* A mean that divides by the number of rows instead of the number of
\* non-missing values.
mean_rows(cells) ==
    LET vals == dropna(cells)
    IN  IF vals = <<>> THEN NaN
        ELSE LET sum == SumSeq(vals) IN Number(sum.n, sum.d * Len(cells))

\* Series.mean(): the mean of the non-missing values, NaN when there is none.
mean(cells) ==
    LET vals == dropna(cells)
    IN  IF vals = <<>> THEN NaN
        ELSE LET sum == SumSeq(vals) IN Number(sum.n, sum.d * Len(vals))

\* Series.median(): the middle non-missing value, or the mean of the two
\* middle ones; NaN when there is none.
median(cells) ==
    LET vals == SortedSeq(dropna(cells))
        len == Len(vals)
    IN  IF len = 0 THEN NaN
        ELSE IF len % 2 = 1 THEN vals[(len + 1) \div 2]
        ELSE mean(<<vals[len \div 2], vals[len \div 2 + 1]>>)

\* Series.mode(): the most frequent non-missing values, ascending.
mode(cells) ==
    LET vals == dropna(cells)
        best == {v \in Range(vals) : \A w \in Range(vals) : Count(vals, w) <= Count(vals, v)}
    IN  SortedSet(best)

Raise(e) == [err |-> e, value |-> NaN]

Return(v) == [err |-> "ok", value |-> v]

\* _compute_fill_value without the dtype check of the 'mean' and 'median'
\* branches.
compute_fill_value_unchecked(t, column, strategy) ==
    LET col == GetColumn(t, column)
    IN  IF IsNumber(strategy) THEN Return(strategy)
        ELSE IF strategy = Text(StrMean) THEN Return(mean(col.cells))
        ELSE IF strategy = Text(StrMedian) THEN Return(median(col.cells))
        ELSE IF strategy = Text(StrMode)
             THEN IF mode(col.cells) = <<>> THEN Raise("KeyError")
                  ELSE Return(mode(col.cells)[1])
        ELSE Raise("NotSupported")

\* MissingValueImputation._compute_fill_value.  The ValueErrors are told
\* apart by their message: "NotNumeric" (mean / median strategy is not
\* applicable for non-numeric column), "NotSupported" (strategy not
\* supported).  mode()[0] of a column without values raises KeyError.
_compute_fill_value(t, column, strategy) ==
    LET col == GetColumn(t, column)
    IN  IF IsNumber(strategy) THEN Return(strategy)
        ELSE IF strategy = Text(StrMean)
             THEN IF IsNumericDtype(col) THEN Return(mean(col.cells))
                  ELSE Raise("NotNumeric")
        ELSE IF strategy = Text(StrMedian)
             THEN IF IsNumericDtype(col) THEN Return(median(col.cells))
                  ELSE Raise("NotNumeric")
        ELSE IF strategy = Text(StrMode)
             THEN IF mode(col.cells) = <<>> THEN Raise("KeyError")
                  ELSE Return(mode(col.cells)[1])
        ELSE Raise("NotSupported")

\* The loop of fit from entry i on; fv is self.fill_values so far.  An
\* error leaves the entries already stored in place.
RECURSIVE fit_loop(_, _, _, _)
fit_loop(strats, i, fv, t) ==
    IF i > Len(strats) THEN [err |-> "ok", fill_values |-> fv]
    ELSE LET column == strats[i][1]
             strategy == strats[i][2]
         IN  IF ~HasColumn(t, column)
             THEN [err |-> "NotPresent", fill_values |-> fv]
             ELSE LET r == _compute_fill_value(t, column, strategy)
                  IN  IF r.err # "ok" THEN [err |-> r.err, fill_values |-> fv]
                      ELSE fit_loop(strats, i + 1, DictSet(fv, column, r.value), t)

\* MissingValueImputation.fit: never writes to the table.
fit(strats, fv, t) == fit_loop(strats, 1, fv, t)

\* A fillna that overwrites every cell of the column.
fillna_all(cells, value) == [i \in DOMAIN cells |-> value]

\* Series.fillna(value)
fillna(cells, value) ==
    [i \in DOMAIN cells |-> IF isna(cells[i]) THEN value ELSE cells[i]]

\* The dtype of a column after fillna: a numeric column that receives a
\* text becomes an object column.
FilledKind(col, value) ==
    IF col.kind = "num" /\ value.k = "str" /\ \E i \in DOMAIN col.cells : isna(col.cells[i])
    THEN "text" ELSE col.kind

\* The loop of transform from entry i on: each column is written to the
\* table as the loop reaches it.
RECURSIVE transform_loop(_, _, _)
transform_loop(fv, i, t) ==
    IF i > Len(fv) THEN [err |-> "ok", df |-> t]
    ELSE LET column == fv[i][1]
             fill_value == fv[i][2]
         IN  IF ~HasColumn(t, column) THEN [err |-> "NotPresent", df |-> t]
             ELSE LET col == GetColumn(t, column)
                  IN  transform_loop(fv, i + 1,
                          SetColumn(t, column, FilledKind(col, fill_value),
                                    fillna(col.cells, fill_value)))

\* A transform that fills each numeric column with the mean of the table it
\* is given instead of the stored fill value.
transform_refit(fv, t) ==
    transform_loop([i \in DOMAIN fv |->
        IF HasColumn(t, fv[i][1]) /\ IsNumericDtype(GetColumn(t, fv[i][1]))
        THEN <<fv[i][1], mean(GetColumn(t, fv[i][1]).cells)>> ELSE fv[i]], 1, t)

\* MissingValueImputation.transform
transform(fv, t) == transform_loop(fv, 1, t)

\* A fit_transform that goes on to transform after a failed fit.
fit_transform_keep_going(strats, fv, t) ==
    LET f == fit(strats, fv, t)
        r == transform(f.fill_values, t)
    IN  [err |-> IF f.err # "ok" THEN f.err ELSE r.err,
         fill_values |-> f.fill_values, df |-> r.df]

\* MissingValueImputation.fit_transform: fit, then transform when fit returned.
fit_transform(strats, fv, t) ==
    LET f == fit(strats, fv, t)
    IN  IF f.err # "ok" THEN [err |-> f.err, fill_values |-> f.fill_values, df |-> t]
        ELSE LET r == transform(f.fill_values, t)
             IN  [err |-> r.err, fill_values |-> f.fill_values, df |-> r.df]

(***************************************************************************)
(* The tables and strategies the imputer is exercised with: a numeric      *)
(* column "n" and a text column "t", each present or not, of MaxRows rows. *)
(***************************************************************************)
ColN == <<"n">>
ColT == <<"t">>

NumCells == {NaN, Number(1, 1), Number(2, 1)}

NumColumns == {Column(ColN, "num", c) : c \in [1..MaxRows -> NumCells]}

\* The text column has m missing cells followed by texts, for every m.
TextColumns ==
    {Column(ColT, "text", [r \in 1..MaxRows |-> IF r <= m THEN NaN ELSE Text(<<"x">>)]) :
        m \in 0..MaxRows}

ImpTables ==
    {Table(RangeIndex(MaxRows), <<c>>) : c \in NumColumns \cup TextColumns}
    \cup {Table(RangeIndex(MaxRows), <<c, e>>) : c \in NumColumns, e \in TextColumns}

Strategies == {Text(StrMean), Text(StrMedian), Text(StrMode), Number(0, 1), Text(<<"z">>)}

StrategyMaps ==
    {<<>>}
    \cup {<<<<c, s>>>> : c \in {ColN, ColT}, s \in Strategies}
    \cup {<<<<ColN, s>>, <<ColT, u>>>> : s \in Strategies, u \in Strategies}
    \cup {<<<<ColT, s>>, <<ColN, u>>>> : s \in Strategies, u \in Strategies}

InitImputation ==
    /\ strategies \in StrategyMaps
    /\ fill_values = <<>>
    /\ df = NoTable
    /\ df_pre = NoTable
    /\ op = "idle"
    /\ err = "ok"
    /\ held = NoTable
    /\ held_pre = NoTable
    /\ columns = <<>>
    /\ encoded = NoneEncoded
    /\ NoTransformer

\* imputer.fit(t)
Fit(t) ==
    LET r == fit(strategies, fill_values, t)
    IN  /\ op = "idle"
        /\ op' = "fit"
        /\ df_pre' = t
        /\ df' = t
        /\ fill_values' = r.fill_values
        /\ err' = r.err
        /\ UNCHANGED <<strategies, encVars, fcVars>>

\* imputer.transform(t)
Transform(t) ==
    LET r == transform(fill_values, t)
    IN  /\ op = "idle"
        /\ op' = "transform"
        /\ df_pre' = t
        /\ df' = r.df
        /\ err' = r.err
        /\ UNCHANGED <<strategies, fill_values, encVars, fcVars>>

\* imputer.fit_transform(t)
FitTransform(t) ==
    LET r == fit_transform(strategies, fill_values, t)
    IN  /\ op = "idle"
        /\ op' = "fit_transform"
        /\ df_pre' = t
        /\ df' = r.df
        /\ fill_values' = r.fill_values
        /\ err' = r.err
        /\ UNCHANGED <<strategies, encVars, fcVars>>

\* The call has returned (or raised) and the caller lets go of the table
\* and of the outcome; the imputer object keeps its state for the next call.
ReleaseImputation ==
    /\ op \in {"fit", "transform", "fit_transform"}
    /\ op' = "idle"
    /\ df' = NoTable
    /\ df_pre' = NoTable
    /\ err' = "ok"
    /\ UNCHANGED <<strategies, fill_values, encVars, fcVars>>

NextImputation ==
    \/ \E t \in ImpTables : Fit(t)
    \/ \E t \in ImpTables : Transform(t)
    \/ \E t \in ImpTables : FitTransform(t)
    \/ ReleaseImputation

SpecImputation == InitImputation /\ [][NextImputation]_vars

(***************************************************************************)
(* featurewise/encoding.py                                                 *)
(***************************************************************************)
\* dtype != 'object'
IsObjectDtype(col) == col.kind = "text"

\* The distinct values in order of first appearance.
RECURSIVE classes_unsorted(_)
classes_unsorted(cells) ==
    IF cells = <<>> THEN <<>>
    ELSE <<Head(cells)>> \o classes_unsorted(SelectSeq(Tail(cells), LAMBDA v : v # Head(cells)))

\* classes_ / categories_ of the sklearn encoders: the distinct values,
\* sorted, a missing value last.
classes_(cells) == SortedSet(Range(cells))

\* LabelEncoder.fit_transform: each value's position in classes_, from 0.
LabelEncoder_fit_transform(cells) ==
    [r \in DOMAIN cells |-> Number(IndexOf(classes_(cells), cells[r]) - 1, 1)]

\* The loop of label_encode from entry i on: each column is checked and
\* then overwritten in the held table before the next one is looked at.
RECURSIVE label_encode_loop(_, _, _)
label_encode_loop(t, cols, i) ==
    IF i > Len(cols) THEN [err |-> "ok", df |-> t]
    ELSE IF ~HasColumn(t, cols[i]) THEN [err |-> "NotPresent", df |-> t]
    ELSE IF ~IsObjectDtype(GetColumn(t, cols[i])) THEN [err |-> "NotObject", df |-> t]
    ELSE label_encode_loop(
             SetColumn(t, cols[i], "num", LabelEncoder_fit_transform(GetColumn(t, cols[i]).cells)),
             cols, i + 1)

\* A label_encode that checks every listed column before it encodes any.
label_encode_atomic(t, cols) ==
    IF \E i \in DOMAIN cols : ~HasColumn(t, cols[i])
    THEN [err |-> "NotPresent", df |-> t]
    ELSE IF \E i \in DOMAIN cols : ~IsObjectDtype(GetColumn(t, cols[i]))
    THEN [err |-> "NotObject", df |-> t]
    ELSE label_encode_loop(t, cols, 1)

\* FeatureEncoding.label_encode
label_encode(t, cols) == label_encode_loop(t, cols, 1)

\* The validation loop of one_hot_encode: the first listed column that is
\* absent or not of object dtype decides the error.
RECURSIVE one_hot_validate(_, _, _)
one_hot_validate(t, cols, i) ==
    IF i > Len(cols) THEN "ok"
    ELSE IF ~HasColumn(t, cols[i]) THEN "NotPresent"
    ELSE IF ~IsObjectDtype(GetColumn(t, cols[i])) THEN "NotObject"
    ELSE one_hot_validate(t, cols, i + 1)

\* str(category) in a feature name
CategoryStr(cat) == IF isna(cat) THEN <<"n", "a", "n">> ELSE cat.s

RECURSIVE Flatten(_)
Flatten(seqs) == IF seqs = <<>> THEN <<>> ELSE Head(seqs) \o Flatten(Tail(seqs))

\* OneHotEncoder(drop='first').fit_transform(df[[column]]).astype(int) with
\* get_feature_names_out: one 0/1 column per category but the first, named
\* <column>_<category>.
OneHotColumns(col) ==
    LET cats == Tail(classes_(col.cells))
    IN  [j \in DOMAIN cats |->
            Column(col.name \o <<"_">> \o CategoryStr(cats[j]), "num",
                   [r \in DOMAIN col.cells |->
                       IF col.cells[r] = cats[j] THEN Number(1, 1) ELSE Number(0, 1)])]

\* pd.DataFrame(encoded_cols, columns=...): the indicator columns of all the
\* listed columns, under a fresh default index.
encoded_df(t, cols) ==
    Table(RangeIndex(Len(t.index)),
          Flatten([i \in DOMAIN cols |-> OneHotColumns(GetColumn(t, cols[i]))]))

\* df.drop(columns, axis=1)
drop(t, cols) ==
    [t EXCEPT !.cols = SelectSeq(t.cols, LAMBDA c : c.name \notin Range(cols))]

\* The labels of both indexes: those of a, then those only in b.
union_indexes(a, b) == a \o SelectSeq(b, LAMBDA x : x \notin Range(a))

\* The table reindexed to the row labels index: a label the table lacks
\* gives a row of missing values.
reindex(t, index) ==
    Table(index,
          [i \in DOMAIN t.cols |->
              Column(t.cols[i].name, t.cols[i].kind,
                     [r \in DOMAIN index |->
                         IF index[r] \in Range(t.index)
                         THEN t.cols[i].cells[IndexOf(t.index, index[r])]
                         ELSE NaN])])

\* pd.concat([a, b], axis=1): the columns side by side, the rows matched by
\* index label (an outer join; equal indexes are kept as they are).
concat(a, b) ==
    LET index == IF a.index = b.index THEN a.index ELSE union_indexes(a.index, b.index)
    IN  Table(index, reindex(a, index).cols \o reindex(b, index).cols)

\* The loop of a one_hot_encode that checks each column only when it comes
\* to encode it.
RECURSIVE one_hot_encode_eager_loop(_, _, _)
one_hot_encode_eager_loop(t, cols, i) ==
    IF i > Len(cols) THEN [err |-> "ok", df |-> t]
    ELSE IF ~HasColumn(t, cols[i]) THEN [err |-> "NotPresent", df |-> t]
    ELSE IF ~IsObjectDtype(GetColumn(t, cols[i])) THEN [err |-> "NotObject", df |-> t]
    ELSE one_hot_encode_eager_loop(
             concat(drop(t, <<cols[i]>>), encoded_df(t, <<cols[i]>>)), cols, i + 1)

one_hot_encode_eager(t, cols) == one_hot_encode_eager_loop(t, cols, 1)

\* FeatureEncoding.one_hot_encode: all listed columns are validated, then
\* self.df is rebound to the concatenation.
one_hot_encode(t, cols) ==
    LET v == one_hot_validate(t, cols, 1)
    IN  IF v # "ok" THEN [err |-> v, df |-> t]
        ELSE [err |-> "ok", df |-> concat(drop(t, cols), encoded_df(t, cols))]

(***************************************************************************)
(* The tables the encoder is built with: a text column "a", alone or next  *)
(* to a column "b" that is numeric or text, under a default index or one   *)
(* left by row selection or sorting; and the column lists it is called     *)
(* with, which may name the absent column "z".                             *)
(***************************************************************************)
ColA == <<"a">>
ColB == <<"b">>
ColZ == <<"z">>

CatCells == {Text(<<"x">>), Text(<<"x", "y">>), Text(<<"y">>), NaN}

AColumns == {Column(ColA, "text", c) : c \in [1..MaxRows -> CatCells]}

\* Column b: the numbers 1, 2, ..., or m texts "x" followed by texts "y".
BColumns ==
    {Column(ColB, "num", [r \in 1..MaxRows |-> Number(r, 1)])}
    \cup {Column(ColB, "text", [r \in 1..MaxRows |-> IF r <= m THEN Text(<<"x">>) ELSE Text(<<"y">>)]) :
            m \in 1..MaxRows}

Indexes ==
    {RangeIndex(MaxRows),
     [r \in 1..MaxRows |-> r],
     [r \in 1..MaxRows |-> MaxRows - r]}

EncTables ==
    {Table(ix, <<a>>) : ix \in Indexes, a \in AColumns}
    \cup {Table(ix, <<a, b>>) : ix \in Indexes, a \in AColumns, b \in BColumns}

ColumnLists ==
    {<<c>> : c \in {ColA, ColB, ColZ}}
    \cup {<<c, e>> : c \in {ColA, ColB, ColZ}, e \in {ColA, ColB, ColZ}}

\* FeatureEncoding(df)
InitEncoding ==
    /\ held \in EncTables
    /\ held_pre = NoTable
    /\ columns = <<>>
    /\ encoded = NoneEncoded
    /\ op = "idle"
    /\ err = "ok"
    /\ strategies = <<>>
    /\ fill_values = <<>>
    /\ df = NoTable
    /\ df_pre = NoTable
    /\ NoTransformer

\* encoder.label_encode(cols)
LabelEncode(cols) ==
    LET r == label_encode(held, cols)
    IN  /\ op = "idle"
        /\ op' = "label_encode"
        /\ columns' = cols
        /\ held_pre' = held
        /\ held' = r.df
        /\ err' = r.err
        /\ UNCHANGED <<impVars, fcVars, encoded>>

\* encoder.one_hot_encode(cols)
OneHotEncode(cols) ==
    LET r == one_hot_encode(held, cols)
    IN  /\ op = "idle"
        /\ op' = "one_hot_encode"
        /\ columns' = cols
        /\ held_pre' = held
        /\ held' = r.df
        /\ err' = r.err
        /\ UNCHANGED <<impVars, fcVars, encoded>>

\* The call has returned (or raised); the encoder keeps the table it holds.
ReleaseEncoding ==
    /\ op \in {"label_encode", "one_hot_encode"}
    /\ op' = "idle"
    /\ held_pre' = NoTable
    /\ columns' = <<>>
    /\ err' = "ok"
    /\ UNCHANGED <<held, impVars, fcVars, encoded>>

NextEncoding ==
    \/ \E cols \in ColumnLists : LabelEncode(cols)
    \/ \E cols \in ColumnLists : OneHotEncode(cols)
    \/ ReleaseEncoding

SpecEncoding == InitEncoding /\ [][NextEncoding]_vars

(***************************************************************************)
(* featurewise/feature_creation.py: PolynomialFeaturesTransformer          *)
(***************************************************************************)
\* The largest degree passed to the transformer.
MaxDegree == 2

\* Python arguments: an int, a float, as distinct from the cells of a table.
PyInt(i) == [k |-> "int", n |-> i, d |-> 1, s |-> <<>>]
PyFloat(n, d) == [k |-> "float", n |-> n, d |-> d, s |-> <<>>]

\* A check of the degree that lets every int through.
DegreeRejectedNotInt(degree) == degree.k # "int"

\* not isinstance(degree, int) or degree < 1
DegreeRejected(degree) == degree.k # "int" \/ degree.n < 1

\* A degree the transformer is documented to take: an int, at least 1.
PositiveInt(v) == v.k = "int" /\ v.n >= 1

\* The attributes of a PolynomialFeaturesTransformer: degree, and the degree
\* its PolynomialFeatures object poly was built with.
PolynomialFeaturesTransformer(degree) ==
    [class |-> "PolynomialFeaturesTransformer", degree |-> degree, poly |-> degree]

\* PolynomialFeaturesTransformer.__init__
poly_init(degree) ==
    IF DegreeRejected(degree) THEN [err |-> "DegreeError", self |-> None]
    ELSE [err |-> "ok", self |-> PolynomialFeaturesTransformer(degree)]

\* df.select_dtypes(include=kinds): the columns of these dtypes, in order.
select_dtypes(t, kinds) == SelectSeq(t.cols, LAMBDA c : c.kind \in kinds)

Mul(a, b) == Number(a.n * b.n, a.d * b.d)

RECURSIVE Pow(_, _)
Pow(a, e) == IF e = 0 THEN Number(1, 1) ELSE Mul(a, Pow(a, e - 1))

\* itertools.combinations_with_replacement(range(lo, n + 1), k), in the
\* order it yields them: the non-decreasing index tuples of length k.
RECURSIVE combinations_with_replacement(_, _, _)
combinations_with_replacement(n, k, lo) ==
    IF k = 0 THEN << <<>> >>
    ELSE Flatten([j \in 1..(n - lo + 1) |->
             LET rest == combinations_with_replacement(n, k - 1, lo + j - 1)
             IN  [m \in DOMAIN rest |-> <<lo + j - 1>> \o rest[m]]])

\* Only the tuples of length degree.
combinations_top_degree(n, degree) == combinations_with_replacement(n, degree, 1)

\* PolynomialFeatures._combinations with include_bias=False: the tuples of
\* length 1, then 2, ... up to degree.
combinations(n, degree) ==
    Flatten([k \in 1..degree |-> combinations_with_replacement(n, k, 1)])

\* PolynomialFeatures.powers_: the exponent of each input feature per term.
powers_(n, degree) ==
    LET combs == combinations(n, degree)
    IN  [j \in DOMAIN combs |-> [i \in 1..n |-> Count(combs[j], i)]]

Digits == <<"0", "1", "2", "3", "4", "5", "6", "7", "8", "9">>

\* "%d" % e
RECURSIVE IntStr(_)
IntStr(e) == IF e < 10 THEN <<Digits[e + 1]>> ELSE IntStr(e \div 10) \o <<Digits[(e % 10) + 1]>>

\* One name of get_feature_names_out from feature i on: the features of
\* non-zero exponent, "name" or "name^exp", joined by a blank.
RECURSIVE feature_name(_, _, _)
feature_name(names, powers, i) ==
    IF i > Len(names) THEN <<>>
    ELSE LET rest == feature_name(names, powers, i + 1)
             term == IF powers[i] = 1 THEN names[i]
                     ELSE names[i] \o <<"^">> \o IntStr(powers[i])
         IN  IF powers[i] = 0 THEN rest
             ELSE IF rest = <<>> THEN term
             ELSE term \o <<" ">> \o rest

\* The product of the row's values raised to the exponents, from feature i on.
RECURSIVE term_value(_, _, _, _)
term_value(cols, powers, r, i) ==
    IF i > Len(cols) THEN Number(1, 1)
    ELSE Mul(Pow(cols[i].cells[r], powers[i]), term_value(cols, powers, r, i + 1))

\* PolynomialFeatures(degree, include_bias=False).fit_transform(df_numeric)
\* as columns named by get_feature_names_out(df_numeric.columns).
PolynomialFeatures_fit_transform(cols, degree) ==
    LET powers == powers_(Len(cols), degree)
        names == [i \in DOMAIN cols |-> cols[i].name]
        rows == DOMAIN cols[1].cells
    IN  [j \in DOMAIN powers |->
            Column(feature_name(names, powers[j], 1), "num",
                   [r \in rows |-> term_value(cols, powers[j], r, 1)])]

\* PolynomialFeaturesTransformer.fit_transform(df, degree): the outcome, the
\* attributes afterwards and the table returned.
poly_fit_transform(obj, t, degree) ==
    IF degree # None /\ DegreeRejected(degree)
    THEN [err |-> "DegreeError", self |-> obj, ret |-> NoTable]
    ELSE LET me == IF degree # None THEN PolynomialFeaturesTransformer(degree) ELSE obj
             numeric_cols == select_dtypes(t, {"num"})
             categorical_cols == select_dtypes(t, {"text", "category"})
         IN  IF numeric_cols = <<>>
             THEN [err |-> "NoNumeric", self |-> me, ret |-> NoTable]
             ELSE IF categorical_cols # <<>>
             THEN [err |-> "Categorical", self |-> me, ret |-> NoTable]
             ELSE IF \E i \in DOMAIN numeric_cols : \E r \in DOMAIN numeric_cols[i].cells :
                         isna(numeric_cols[i].cells[r])
             THEN [err |-> "TransformFailed", self |-> me, ret |-> NoTable]
             ELSE LET transformed_data == PolynomialFeatures_fit_transform(numeric_cols, me.poly.n)
                  IN  IF transformed_data = <<>>
                      THEN [err |-> "NoFeatures", self |-> me, ret |-> NoTable]
                      ELSE [err |-> "ok", self |-> me,
                            ret |-> Table(RangeIndex(Len(t.index)), transformed_data)]

(***************************************************************************)
(* The tables handed to the polynomial transformer: a numeric column "x",  *)
(* alone, next to a numeric column "y", or next to a column "c" that is    *)
(* text, categorical, boolean or datetime; or the column "c" alone.  The   *)
(* degrees passed are ints from -1 on, floats and a text.                  *)
(***************************************************************************)
ColX == <<"x">>
ColY == <<"y">>
ColC == <<"c">>

XCells == {Number(2, 1), Number(1, 2), NaN}

XColumns == {Column(ColX, "num", c) : c \in [1..MaxRows -> XCells]}

YColumn == Column(ColY, "num", [r \in 1..MaxRows |-> Number(r + 2, 1)])

OtherKinds == {"text", "category", "bool", "datetime"}

\* Column c of a dtype that is not a number: texts "x", True, or timestamps.
CColumns ==
    {Column(ColC, kind,
            [r \in 1..MaxRows |->
                IF kind \in {"text", "category"} THEN Text(<<"x">>) ELSE Number(1, 1)]) :
        kind \in OtherKinds}

PolyTables ==
    {Table(RangeIndex(MaxRows), <<x>>) : x \in XColumns}
    \cup {Table(RangeIndex(MaxRows), <<x, YColumn>>) : x \in XColumns}
    \cup {Table(RangeIndex(MaxRows), <<x, c, YColumn>>) : x \in XColumns, c \in CColumns}
    \cup {Table(RangeIndex(MaxRows), <<c, x>>) : x \in XColumns, c \in CColumns}
    \cup {Table(RangeIndex(MaxRows), <<c>>) : c \in CColumns}

DegreeArgs ==
    {PyInt(i) : i \in (-1)..MaxDegree}
    \cup {PyFloat(2, 1), PyFloat(3, 2), Text(<<"2">>)}

InitPolynomial ==
    /\ strategies = <<>>
    /\ fill_values = <<>>
    /\ df = NoTable
    /\ df_pre = NoTable
    /\ op = "idle"
    /\ err = "ok"
    /\ held = NoTable
    /\ held_pre = NoTable
    /\ columns = <<>>
    /\ encoded = NoneEncoded
    /\ NoTransformer

\* transformer = PolynomialFeaturesTransformer(degree)
PolyConstruct(degree) ==
    LET r == poly_init(degree)
    IN  /\ op = "idle"
        /\ self = None
        /\ op' = "PolynomialFeaturesTransformer"
        /\ arg' = degree
        /\ self' = r.self
        /\ err' = r.err
        /\ last_valid' = IF PositiveInt(degree) THEN degree ELSE last_valid
        /\ UNCHANGED <<ret, df, df_pre, strategies, fill_values, encVars>>

\* transformer.fit_transform(t, degree), degree = None when it is not passed
PolyFitTransform(t, degree) ==
    LET r == poly_fit_transform(self, t, degree)
    IN  /\ op = "idle"
        /\ self # None
        /\ op' = "poly_fit_transform"
        /\ arg' = degree
        /\ df_pre' = t
        /\ df' = t
        /\ self' = r.self
        /\ ret' = r.ret
        /\ err' = r.err
        /\ last_valid' = IF PositiveInt(degree) THEN degree ELSE last_valid
        /\ UNCHANGED <<strategies, fill_values, encVars>>

\* The call has returned (or raised); the transformer, if one was built,
\* keeps its attributes for the next call.
ReleasePolynomial ==
    /\ op \in {"PolynomialFeaturesTransformer", "poly_fit_transform"}
    /\ op' = "idle"
    /\ arg' = None
    /\ ret' = NoTable
    /\ df' = NoTable
    /\ df_pre' = NoTable
    /\ err' = "ok"
    /\ UNCHANGED <<self, last_valid, strategies, fill_values, encVars>>

NextPolynomial ==
    \/ \E degree \in DegreeArgs : PolyConstruct(degree)
    \/ \E t \in PolyTables : \E degree \in DegreeArgs \cup {None} : PolyFitTransform(t, degree)
    \/ ReleasePolynomial

SpecPolynomial == InitPolynomial /\ [][NextPolynomial]_vars

(***************************************************************************)
(* featurewise/feature_creation.py: AggregationTransformer                 *)
(***************************************************************************)
\* Python arguments: a list and a dict (its entries in order), as distinct
\* from a string or a number passed in their place.
PyList(seq) == [k |-> "list", n |-> 0, d |-> 1, s |-> seq]
PyDict(entries) == [k |-> "dict", n |-> 0, d |-> 1, s |-> entries]

StrSum == <<"s", "u", "m">>
StrMax == <<"m", "a", "x">>

\* The attributes of an AggregationTransformer.
AggregationTransformer(groupby_cols, agg_funcs) ==
    [class |-> "AggregationTransformer", groupby_cols |-> groupby_cols, agg_funcs |-> agg_funcs]

\* AggregationTransformer.__init__
agg_init(groupby_cols, agg_funcs) ==
    IF groupby_cols.k # "list" THEN [err |-> "NotList", self |-> None]
    ELSE IF agg_funcs.k # "dict" THEN [err |-> "NotDict", self |-> None]
    ELSE [err |-> "ok", self |-> AggregationTransformer(groupby_cols.s, agg_funcs.s)]

\* The group key of row r: its values in the group-by columns.
group_key(t, by, r) == [i \in DOMAIN by |-> GetColumn(t, by[i]).cells[r]]

\* The order of group keys: by the first column, then the next.
TupleLess(a, b) ==
    \E i \in DOMAIN a : (\A j \in 1..(i - 1) : a[j] = b[j]) /\ ValLess(a[i], b[i])

RECURSIVE SortedTuples(_)
SortedTuples(S) ==
    IF S = {} THEN <<>>
    ELSE LET m == CHOOSE x \in S : \A y \in S \ {x} : TupleLess(x, y)
         IN  <<m>> \o SortedTuples(S \ {m})

\* df.groupby(by) with sort=True, dropna=True: the distinct keys without a
\* missing value, ascending.
group_keys(t, by) ==
    SortedTuples({group_key(t, by, r) : r \in
        {q \in DOMAIN t.index : \A i \in DOMAIN by : ~isna(group_key(t, by, q)[i])}})

\* The cells of a column in the rows of one group, in row order.
group_cells(t, by, key, column) ==
    LET rows == SelectSeq([r \in DOMAIN t.index |-> r], LAMBDA r : group_key(t, by, r) = key)
    IN  [j \in DOMAIN rows |-> GetColumn(t, column).cells[rows[j]]]

\* Series.sum(): the sum of the non-missing values, 0 when there is none.
series_sum(cells) == SumSeq(dropna(cells))

\* Series.max(): the largest non-missing value, NaN when there is none.
series_max(cells) ==
    LET vals == dropna(cells)
    IN  IF vals = <<>> THEN NaN
        ELSE CHOOSE x \in Range(vals) : \A y \in Range(vals) : ~ValLess(x, y)

AggFuncs == {Text(StrSum), Text(StrMean), Text(StrMax)}

\* A reduction that looks at the first row of the group only.
reduce_first(func, cells) == cells[1]

\* The reduction named func of the cells of a group.
reduce(func, cells) ==
    CASE func = Text(StrSum) -> series_sum(cells)
      [] func = Text(StrMean) -> mean(cells)
      [] func = Text(StrMax) -> series_max(cells)

\* df.groupby(by).agg(agg_funcs).reset_index(): one row per group key, the
\* group-by columns first, then the reduced columns in the order of the dict.
aggregate(t, by, agg_funcs) ==
    LET keys == group_keys(t, by)
    IN  Table(RangeIndex(Len(keys)),
              [i \in DOMAIN by |->
                  Column(by[i], GetColumn(t, by[i]).kind, [j \in DOMAIN keys |-> keys[j][i]])]
              \o [i \in DOMAIN agg_funcs |->
                  Column(agg_funcs[i][1], "num",
                         [j \in DOMAIN keys |->
                             reduce(agg_funcs[i][2], group_cells(t, by, keys[j], agg_funcs[i][1]))])])

\* What makes pandas raise inside the try block: no group key, a reduced
\* column that is also a group key, a function name pandas does not know.
aggregation_raises(by, agg_funcs) ==
    \/ by = <<>>
    \/ \E i \in DOMAIN agg_funcs : agg_funcs[i][1] \in Range(by)
    \/ \E i \in DOMAIN agg_funcs : agg_funcs[i][2] \notin AggFuncs

\* A transform that leaves the existence checks to pandas.
agg_fit_transform_unchecked(obj, t) ==
    IF \/ \E i \in DOMAIN obj.groupby_cols : ~HasColumn(t, obj.groupby_cols[i])
       \/ \E i \in DOMAIN obj.agg_funcs : ~HasColumn(t, obj.agg_funcs[i][1])
       \/ aggregation_raises(obj.groupby_cols, obj.agg_funcs)
    THEN [err |-> "AggregationFailed", ret |-> NoTable]
    ELSE [err |-> "ok", ret |-> aggregate(t, obj.groupby_cols, obj.agg_funcs)]

\* AggregationTransformer.fit_transform(df)
agg_fit_transform(obj, t) ==
    IF \E i \in DOMAIN obj.groupby_cols : ~HasColumn(t, obj.groupby_cols[i])
    THEN [err |-> "GroupbyNotPresent", ret |-> NoTable]
    ELSE IF \E i \in DOMAIN obj.agg_funcs : ~HasColumn(t, obj.agg_funcs[i][1])
    THEN [err |-> "AggNotPresent", ret |-> NoTable]
    ELSE IF aggregation_raises(obj.groupby_cols, obj.agg_funcs)
    THEN [err |-> "AggregationFailed", ret |-> NoTable]
    ELSE [err |-> "ok", ret |-> aggregate(t, obj.groupby_cols, obj.agg_funcs)]

(***************************************************************************)
(* The tables handed to the aggregation transformer: a text column "g" of  *)
(* keys "a", "b" or missing, a numeric column "x" to reduce, and with or   *)
(* without a numeric key column "h"; the transformer is built with lists   *)
(* over g, h and the absent column z and with dicts over x, h and z.       *)
(***************************************************************************)
ColG == <<"g">>
ColH == <<"h">>

GCells == {Text(<<"a">>), Text(<<"b">>), NaN}

GColumns == {Column(ColG, "text", c) : c \in [1..MaxRows -> GCells]}

\* Column x: 1, 2, 3, ...; the same with the first or the last cell
\* missing; all cells 2.
AggXColumns ==
    {Column(ColX, "num", [r \in 1..MaxRows |-> Number(r, 1)]),
     Column(ColX, "num", [r \in 1..MaxRows |-> IF r = 1 THEN NaN ELSE Number(r, 1)]),
     Column(ColX, "num", [r \in 1..MaxRows |-> IF r = MaxRows THEN NaN ELSE Number(r, 1)]),
     Column(ColX, "num", [r \in 1..MaxRows |-> Number(2, 1)])}

\* Column h: 1, 0, 1, 0, ...
HColumn == Column(ColH, "num", [r \in 1..MaxRows |-> Number(r % 2, 1)])

AggTables ==
    {Table(RangeIndex(MaxRows), <<g, x>>) : g \in GColumns, x \in AggXColumns}
    \cup {Table(RangeIndex(MaxRows), <<g, HColumn, x>>) : g \in GColumns, x \in AggXColumns}

GroupbyArgs ==
    {PyList(s) : s \in {<<>>, <<ColG>>, <<ColH>>, <<ColG, ColH>>, <<ColH, ColG>>,
                        <<ColZ>>, <<ColG, ColZ>>}}
    \cup {Text(ColG)}

AggFuncArgs ==
    {PyDict(<<<<ColX, f>>>>) : f \in AggFuncs \cup {Text(ColZ)}}
    \cup {PyDict(<<<<ColZ, Text(StrSum)>>>>),
          PyDict(<<<<ColX, Text(StrSum)>>, <<ColZ, Text(StrSum)>>>>),
          PyDict(<<<<ColH, Text(StrMax)>>>>),
          PyDict(<<<<ColX, Text(StrMean)>>, <<ColH, Text(StrSum)>>>>),
          PyList(<<ColX>>)}

InitAggregation ==
    /\ strategies = <<>>
    /\ fill_values = <<>>
    /\ df = NoTable
    /\ df_pre = NoTable
    /\ op = "idle"
    /\ err = "ok"
    /\ held = NoTable
    /\ held_pre = NoTable
    /\ columns = <<>>
    /\ encoded = NoneEncoded
    /\ NoTransformer

\* transformer = AggregationTransformer(groupby_cols, agg_funcs)
AggConstruct(groupby_cols, agg_funcs) ==
    LET r == agg_init(groupby_cols, agg_funcs)
    IN  /\ op = "idle"
        /\ self = None
        /\ op' = "AggregationTransformer"
        /\ arg' = <<groupby_cols, agg_funcs>>
        /\ self' = r.self
        /\ err' = r.err
        /\ UNCHANGED <<ret, last_valid, df, df_pre, strategies, fill_values, encVars>>

\* transformer.fit_transform(t)
AggFitTransform(t) ==
    LET r == agg_fit_transform(self, t)
    IN  /\ op = "idle"
        /\ self # None
        /\ op' = "agg_fit_transform"
        /\ df_pre' = t
        /\ df' = t
        /\ ret' = r.ret
        /\ err' = r.err
        /\ UNCHANGED <<self, arg, last_valid, strategies, fill_values, encVars>>

\* The call has returned (or raised); the transformer, if one was built,
\* keeps its attributes for the next call.
ReleaseAggregation ==
    /\ op \in {"AggregationTransformer", "agg_fit_transform"}
    /\ op' = "idle"
    /\ arg' = None
    /\ ret' = NoTable
    /\ df' = NoTable
    /\ df_pre' = NoTable
    /\ err' = "ok"
    /\ UNCHANGED <<self, last_valid, strategies, fill_values, encVars>>

NextAggregation ==
    \/ \E groupby_cols \in GroupbyArgs : \E agg_funcs \in AggFuncArgs :
           AggConstruct(groupby_cols, agg_funcs)
    \/ \E t \in AggTables : AggFitTransform(t)
    \/ ReleaseAggregation

SpecAggregation == InitAggregation /\ [][NextAggregation]_vars

(***************************************************************************)
(* featurewise/feature_creation.py: BinningTransformer                     *)
(***************************************************************************)
\* The largest number of bins a transformer is built with.
MaxBins == 2

\* bins=10, the constructor's default.
DefaultBins == 10

StrEqualWidth == <<"e", "q", "u", "a", "l", "_", "w", "i", "d", "t", "h">>
StrEqualFrequency ==
    <<"e", "q", "u", "a", "l", "_", "f", "r", "e", "q", "u", "e", "n", "c", "y">>
StrCustom == <<"c", "u", "s", "t", "o", "m">>

\* col + '_binned'
binned_name(col) == col \o <<"_", "b", "i", "n", "n", "e", "d">>

\* The attributes of a BinningTransformer.
BinningTransformer(binning_cols, strategy, bins, custom_bins) ==
    [class |-> "BinningTransformer", binning_cols |-> binning_cols, strategy |-> strategy,
     bins |-> bins, custom_bins |-> custom_bins]

\* BinningTransformer.__init__
bin_init(binning_cols, strategy, bins, custom_bins) ==
    IF binning_cols.k # "list" THEN [err |-> "NotList", self |-> None]
    ELSE IF strategy \notin {Text(StrEqualWidth), Text(StrEqualFrequency), Text(StrCustom)}
    THEN [err |-> "InvalidStrategy", self |-> None]
    ELSE [err |-> "ok", self |-> BinningTransformer(binning_cols.s, strategy, bins, custom_bins)]

Add(a, b) == Number(a.n * b.d + b.n * a.d, a.d * b.d)
Sub(a, b) == Number(a.n * b.d - b.n * a.d, a.d * b.d)

\* The position of an interval among the categories of a binned column,
\* which is what a cell of the column holds.
Bin(code) == [k |-> "bin", n |-> code, d |-> 1, s |-> <<>>]

\* The cells sorted into the intervals (edges[i], edges[i + 1]], the lowest
\* edge included; a missing value or one outside all intervals is missing.
bins_to_cuts(cells, edges) ==
    [r \in DOMAIN cells |->
        LET v == cells[r]
            fits == {i \in 1..(Len(edges) - 1) :
                        /\ ~ValLess(edges[i + 1], v)
                        /\ ValLess(edges[i], v) \/ (i = 1 /\ v = edges[1])}
        IN  IF isna(v) \/ fits = {} THEN NaN
            ELSE Bin((CHOOSE i \in fits : \A j \in fits : i <= j) - 1)]

\* np.linspace(mn, mx, bins + 1)
linspace(mn, mx, bins) ==
    [i \in 1..(bins + 1) |-> Add(mn, Mul(Number(i - 1, bins), Sub(mx, mn)))]

\* The edges pd.cut computes for a number of bins: the range of the values
\* in equal parts, the lowest edge moved down by 0.1% of the range; a
\* constant column has its range widened by 0.1% of its value first.
cut_edges(cells, bins) ==
    LET vals == SortedSeq(dropna(cells))
        mn == vals[1]
        mx == vals[Len(vals)]
    IN  IF mn = mx
        THEN LET by == IF mn.n = 0 THEN Number(1, 1000) ELSE Mul(Number(1, 1000), mn)
             IN  linspace(Sub(mn, by), Add(mx, by), bins)
        ELSE LET e == linspace(mn, mx, bins)
             IN  [e EXCEPT ![1] = Sub(e[1], Mul(Number(1, 1000), Sub(mx, mn)))]

\* pd.cut(df[col], bins=bins, right=True, include_lowest=True), bins an int
cut(col, bins) ==
    IF col.kind # "num" \/ bins.k # "int" \/ bins.n < 1 THEN Raise("cut")
    ELSE Return(bins_to_cuts(col.cells, cut_edges(col.cells, bins.n)))

\* Series.quantile(p / q), by linear interpolation between the two nearest
\* of the sorted non-missing values.
quantile(vals, p, q) ==
    LET at == p * (Len(vals) - 1)
        lo == (at \div q) + 1
    IN  IF at % q = 0 THEN vals[lo]
        ELSE Add(vals[lo], Mul(Number(at % q, q), Sub(vals[lo + 1], vals[lo])))

\* pd.qcut(df[col], q=bins, duplicates='drop'): the edges are the quantiles
\* 0, 1/q, ..., 1, equal edges collapsed when there are more than two.
qcut(col, bins) ==
    IF col.kind # "num" \/ bins.k # "int" \/ bins.n < 1 THEN Raise("qcut")
    ELSE LET vals == SortedSeq(dropna(col.cells))
             quantiles == [i \in 1..(bins.n + 1) |-> quantile(vals, i - 1, bins.n)]
             edges == IF Len(quantiles) # 2 THEN classes_unsorted(quantiles) ELSE quantiles
         IN  Return(bins_to_cuts(col.cells, edges))

\* pd.cut(df[col], bins=custom_bins, right=True, include_lowest=True): the
\* edges must not decrease, nor repeat when there are more than two.
cut_custom(col, edges) ==
    IF \/ col.kind # "num"
       \/ \E i \in 1..(Len(edges) - 1) : ValLess(edges[i + 1], edges[i])
       \/ (Len(edges) # 2 /\ Cardinality(Range(edges)) < Len(edges))
    THEN Raise("cut")
    ELSE Return(bins_to_cuts(col.cells, edges))

\* The body of the try block for one column: the binned cells, or the
\* exception raised.
bin_column(obj, col) ==
    CASE obj.strategy = Text(StrEqualWidth) -> cut(col, obj.bins)
      [] obj.strategy = Text(StrEqualFrequency) -> qcut(col, obj.bins)
      [] obj.strategy = Text(StrCustom) ->
             IF obj.custom_bins # None /\ obj.custom_bins.k = "list" /\ Len(obj.custom_bins.s) > 1
             THEN cut_custom(col, obj.custom_bins.s)
             ELSE Raise("CustomBins")

\* An assignment that always adds a column at the end.
append_item(t, name, kind, cells) ==
    [t EXCEPT !.cols = t.cols \o <<Column(name, kind, cells)>>]

\* df[name] = cells: overwrites the column of this name in place, or adds
\* the column at the end when there is none.
setitem(t, name, kind, cells) ==
    IF HasColumn(t, name) THEN SetColumn(t, name, kind, cells)
    ELSE [t EXCEPT !.cols = t.cols \o <<Column(name, kind, cells)>>]

\* The loop of fit_transform from target i on: each column is binned into
\* the caller's table before the next one is looked at.
RECURSIVE bin_loop(_, _, _)
bin_loop(obj, t, i) ==
    IF i > Len(obj.binning_cols) THEN [err |-> "ok", df |-> t]
    ELSE IF ~HasColumn(t, obj.binning_cols[i]) THEN [err |-> "NotFound", df |-> t]
    ELSE LET r == bin_column(obj, GetColumn(t, obj.binning_cols[i]))
         IN  IF r.err # "ok" THEN [err |-> "BinFailed", df |-> t]
             ELSE bin_loop(obj, setitem(t, binned_name(obj.binning_cols[i]), "category", r.value),
                           i + 1)

\* A fit_transform that hands the table back untouched when a column fails.
bin_fit_transform_atomic(obj, t) ==
    LET r == bin_loop(obj, t, 1)
    IN  IF r.err # "ok" THEN [err |-> r.err, df |-> t] ELSE r

\* BinningTransformer.fit_transform(df)
bin_fit_transform(obj, t) == bin_loop(obj, t, 1)

(***************************************************************************)
(* The tables handed to the binning transformer hold a numeric column "x"  *)
(* with at least two different values, a numeric column "y" and a text     *)
(* column "t"; the targets are lists without repetition over x, y, t and   *)
(* the absent column z.                                                    *)
(***************************************************************************)
BinXColumns ==
    {Column(ColX, "num", c) : c \in
        {f \in [1..MaxRows -> {Number(1, 1), Number(2, 1), NaN}] :
            {Number(1, 1), Number(2, 1)} \subseteq Range(f)}}

BinTables ==
    {Table(RangeIndex(MaxRows),
           <<x, YColumn, Column(ColT, "text", [r \in 1..MaxRows |-> Text(<<"x">>)])>>) :
        x \in BinXColumns}

TargetNames == {ColX, ColY, ColT, ColZ}

BinningColsArgs ==
    {PyList(q) : q \in
        {f \in UNION {[1..len -> TargetNames] : len \in 0..3} :
            Cardinality(Range(f)) = Len(f)}}

CustomBinsArgs ==
    {None, PyList(<<>>), PyList(<<Number(1, 1)>>),
     PyList(<<Number(0, 1), Number(2, 1)>>),
     PyList(<<Number(0, 1), Number(1, 1), Number(4, 1)>>),
     PyList(<<Number(2, 1), Number(0, 1)>>)}

\* strategy, bins and custom_bins as passed to the constructor.
BinningArgs ==
    {<<s, PyInt(b), None>> : s \in {Text(StrEqualWidth), Text(StrEqualFrequency)}, b \in 1..MaxBins}
    \cup {<<Text(StrCustom), PyInt(DefaultBins), c>> : c \in CustomBinsArgs}
    \cup {<<Text(ColZ), PyInt(DefaultBins), c>> : c \in {None, PyList(<<Number(0, 1), Number(2, 1)>>)}}

InitBinning ==
    /\ strategies = <<>>
    /\ fill_values = <<>>
    /\ df = NoTable
    /\ df_pre = NoTable
    /\ op = "idle"
    /\ err = "ok"
    /\ held = NoTable
    /\ held_pre = NoTable
    /\ columns = <<>>
    /\ encoded = NoneEncoded
    /\ NoTransformer

\* transformer = BinningTransformer(binning_cols, strategy, bins, custom_bins)
BinConstruct(binning_cols, a) ==
    LET r == bin_init(binning_cols, a[1], a[2], a[3])
    IN  /\ op = "idle"
        /\ self = None
        /\ op' = "BinningTransformer"
        /\ arg' = <<binning_cols>> \o a
        /\ self' = r.self
        /\ err' = r.err
        /\ UNCHANGED <<ret, last_valid, df, df_pre, strategies, fill_values, encVars>>

\* transformer.fit_transform(t) on a table of the caller: df is the
\* caller's table object after the call, which is also what is returned.
BinFitTransform(t) ==
    LET r == bin_fit_transform(self, t)
    IN  /\ op = "idle"
        /\ self # None
        /\ df = NoTable
        /\ op' = "bin_fit_transform"
        /\ df_pre' = t
        /\ df' = r.df
        /\ ret' = IF r.err = "ok" THEN r.df ELSE NoTable
        /\ err' = r.err
        /\ UNCHANGED <<self, arg, last_valid, strategies, fill_values, encVars>>

\* transformer.fit_transform(df) once more, on the table of the last call.
BinFitTransformAgain ==
    LET r == bin_fit_transform(self, df)
    IN  /\ op = "idle"
        /\ self # None
        /\ df # NoTable
        /\ op' = "bin_fit_transform_again"
        /\ df_pre' = df
        /\ df' = r.df
        /\ ret' = IF r.err = "ok" THEN r.df ELSE NoTable
        /\ err' = r.err
        /\ UNCHANGED <<self, arg, last_valid, strategies, fill_values, encVars>>

\* The call has returned (or raised); the transformer, if one was built,
\* keeps its attributes and the caller keeps the table.
ReleaseBinning ==
    /\ op \in {"BinningTransformer", "bin_fit_transform", "bin_fit_transform_again"}
    /\ op' = "idle"
    /\ arg' = None
    /\ ret' = NoTable
    /\ df_pre' = NoTable
    /\ err' = "ok"
    /\ UNCHANGED <<self, df, last_valid, strategies, fill_values, encVars>>

NextBinning ==
    \/ \E binning_cols \in BinningColsArgs \cup {Text(ColX)} : \E a \in BinningArgs :
           BinConstruct(binning_cols, a)
    \/ \E t \in BinTables : BinFitTransform(t)
    \/ BinFitTransformAgain
    \/ ReleaseBinning

SpecBinning == InitBinning /\ [][NextBinning]_vars

(***************************************************************************)
(* featurewise/feature_select.py: FeatureSelection                         *)
(* score_func, estimator and model are objects supplied by the caller: the *)
(* scores, the elimination order and the importances they compute, or the  *)
(* fact that they raise, are inputs of the calls.                          *)
(***************************************************************************)
\* The largest score or importance a feature is given.
MaxScore == 2

\* The largest number of features asked for.
MaxK == 4

\* The attributes of a FeatureSelection: df is the caller's table, X the
\* table without the target column, y the target column.
FeatureSelection(t, target) ==
    [class |-> "FeatureSelection", df |-> t, target |-> target,
     X |-> drop(t, <<target>>), y |-> GetColumn(t, target)]

\* FeatureSelection.__init__
sel_init(t, target) ==
    IF ~HasColumn(t, target) THEN [err |-> "NotPresent", self |-> None]
    ELSE [err |-> "ok", self |-> FeatureSelection(t, target)]

\* df[names]: a new table of the named columns, in the order of the names.
getitem(t, names) == Table(t.index, [j \in DOMAIN names |-> GetColumn(t, names[j])])

\* self.X.columns[mask]: the names at the positions of the mask, in order.
masked(names, mask) ==
    LET at == SelectSeq([i \in DOMAIN names |-> i], LAMBDA i : i \in mask)
    IN  [j \in DOMAIN at |-> names[at[j]]]

\* np.argsort(scores, kind="mergesort") over the positions S: ascending,
\* equal scores in the order of their positions.
RECURSIVE argsort(_, _)
argsort(scores, S) ==
    IF S = {} THEN <<>>
    ELSE LET m == CHOOSE i \in S : \A j \in S \ {i} :
                      scores[i] < scores[j] \/ (scores[i] = scores[j] /\ i < j)
         IN  <<m>> \o argsort(scores, S \ {m})

\* SelectKBest.get_support(): the positions of the k highest scores.
get_support(scores, k) ==
    LET order == argsort(scores, DOMAIN scores)
    IN  {order[i] : i \in (Len(order) - k + 1)..Len(order)}

\* FeatureSelection.select_k_best(score_func, k): scores is what score_func
\* computes for the columns of X, None when the fit raises; a k above the
\* number of features raises in a strict SelectKBest and selects all the
\* features otherwise.
select_k_best(obj, scores, k, strict) ==
    IF scores = None THEN [err |-> "FitFailed", ret |-> NoTable]
    ELSE IF k > Len(obj.X.cols)
    THEN IF strict THEN [err |-> "FitFailed", ret |-> NoTable]
         ELSE [err |-> "ok", ret |-> getitem(obj.df, ColumnNames(obj.X))]
    ELSE [err |-> "ok",
          ret |-> getitem(obj.df, masked(ColumnNames(obj.X), get_support(scores, k)))]

\* RFE.support_: the features are eliminated one by one in the order the
\* refitted estimator ranks them last, until n_features_to_select are left.
support_(ranking, n_features_to_select) ==
    LET left == IF n_features_to_select >= Len(ranking) THEN Len(ranking)
                ELSE n_features_to_select
    IN  {ranking[i] : i \in (Len(ranking) - left + 1)..Len(ranking)}

\* FeatureSelection.recursive_feature_elimination(estimator, n): ranking is
\* the elimination order the estimator gives, None when the fit raises.
recursive_feature_elimination(obj, ranking, n_features_to_select) ==
    IF ranking = None THEN [err |-> "FitFailed", ret |-> NoTable]
    ELSE [err |-> "ok",
          ret |-> getitem(obj.df, masked(ColumnNames(obj.X),
                                         support_(ranking, n_features_to_select)))]

\* The positions in ascending order of importance.
sort_values_ascending(importance, tiebreak) ==
    argsort(importance, DOMAIN importance)

\* importance.sort_values(ascending=False): the positions by decreasing
\* importance; the order of equal importances is not fixed by the sort and
\* is given by tiebreak.
RECURSIVE sort_values_from(_, _, _)
sort_values_from(importance, tiebreak, S) ==
    IF S = {} THEN <<>>
    ELSE LET m == CHOOSE i \in S : \A j \in S \ {i} :
                      \/ importance[i] > importance[j]
                      \/ (importance[i] = importance[j] /\ tiebreak[i] < tiebreak[j])
         IN  <<m>> \o sort_values_from(importance, tiebreak, S \ {m})

sort_values(importance, tiebreak) ==
    sort_values_from(importance, tiebreak, DOMAIN importance)

\* FeatureSelection.feature_importance(model): importance is
\* model.feature_importances_ for the columns of X, None when the fit raises.
feature_importance(obj, importance, tiebreak) ==
    IF importance = None THEN [err |-> "FitFailed", ret |-> NoTable]
    ELSE LET order == sort_values(importance, tiebreak)
             names == ColumnNames(obj.X)
         IN  [err |-> "ok", ret |-> getitem(obj.df, [j \in DOMAIN order |-> names[order[j]]])]

(***************************************************************************)
(* The tables FeatureSelection is built with: a numeric column "x" and a   *)
(* column "y" of classes, with or without a text column "a" and a numeric  *)
(* column "b", under a default or another row index; the target named is   *)
(* y, the feature a, or the absent column z.                               *)
(***************************************************************************)
SelXColumns == {Column(ColX, "num", c) : c \in [1..MaxRows -> {Number(1, 1), Number(2, 1)}]}

SelYColumn == Column(ColY, "num", [r \in 1..MaxRows |-> Number(r % 2, 1)])

SelAColumn ==
    Column(ColA, "text", [r \in 1..MaxRows |-> IF r = 1 THEN Text(<<"x">>) ELSE Text(<<"y">>)])

SelBColumn == Column(ColB, "num", [r \in 1..MaxRows |-> Number(r, 2)])

SelTables ==
    {Table(ix, <<x, SelYColumn, SelBColumn>>) : ix \in Indexes, x \in SelXColumns}
    \cup {Table(ix, <<SelAColumn, SelBColumn, x, SelYColumn>>) : ix \in Indexes, x \in SelXColumns}

Orderings(n) == {f \in [1..n -> 1..n] : \A i, j \in 1..n : f[i] = f[j] => i = j}

ScoreVectors(n) == [1..n -> 0..MaxScore]

InitSelection ==
    /\ strategies = <<>>
    /\ fill_values = <<>>
    /\ df = NoTable
    /\ df_pre = NoTable
    /\ op = "idle"
    /\ err = "ok"
    /\ held = NoTable
    /\ held_pre = NoTable
    /\ columns = <<>>
    /\ encoded = NoneEncoded
    /\ NoTransformer

\* selector = FeatureSelection(t, target)
SelConstruct(t, target) ==
    LET r == sel_init(t, target)
    IN  /\ op = "idle"
        /\ self = None
        /\ df = NoTable
        /\ op' = "FeatureSelection"
        /\ arg' = <<target>>
        /\ df_pre' = t
        /\ df' = t
        /\ self' = r.self
        /\ err' = r.err
        /\ UNCHANGED <<ret, last_valid, strategies, fill_values, encVars>>

\* selector.select_k_best(score_func, k)
SelectKBest(k, strict) ==
    /\ op = "idle"
    /\ self # None
    /\ \E scores \in ScoreVectors(Len(self.X.cols)) \cup {None} :
           LET r == select_k_best(self, scores, k, strict)
           IN  /\ op' = "select_k_best"
               /\ arg' = <<scores, k>>
               /\ ret' = r.ret
               /\ err' = r.err
    /\ df_pre' = df
    /\ UNCHANGED <<self, df, last_valid, strategies, fill_values, encVars>>

\* selector.recursive_feature_elimination(estimator, n_features_to_select)
RecursiveFeatureElimination(n_features_to_select) ==
    /\ op = "idle"
    /\ self # None
    /\ \E ranking \in Orderings(Len(self.X.cols)) \cup {None} :
           LET r == recursive_feature_elimination(self, ranking, n_features_to_select)
           IN  /\ op' = "recursive_feature_elimination"
               /\ arg' = <<ranking, n_features_to_select>>
               /\ ret' = r.ret
               /\ err' = r.err
    /\ df_pre' = df
    /\ UNCHANGED <<self, df, last_valid, strategies, fill_values, encVars>>

\* selector.feature_importance(model)
FeatureImportance ==
    /\ op = "idle"
    /\ self # None
    /\ \E importance \in ScoreVectors(Len(self.X.cols)) \cup {None} :
       \E tiebreak \in Orderings(Len(self.X.cols)) :
           LET r == feature_importance(self, importance, tiebreak)
           IN  /\ op' = "feature_importance"
               /\ arg' = <<importance>>
               /\ ret' = r.ret
               /\ err' = r.err
    /\ df_pre' = df
    /\ UNCHANGED <<self, df, last_valid, strategies, fill_values, encVars>>

\* The call has returned (or raised); the selector, if one was built, and
\* the caller's table stay.
ReleaseSelection ==
    /\ op \in {"FeatureSelection", "select_k_best", "recursive_feature_elimination",
               "feature_importance"}
    /\ op' = "idle"
    /\ arg' = None
    /\ ret' = NoTable
    /\ df_pre' = NoTable
    /\ df' = IF self = None THEN NoTable ELSE df
    /\ err' = "ok"
    /\ UNCHANGED <<self, last_valid, strategies, fill_values, encVars>>

NextSelection ==
    \/ \E t \in SelTables : \E target \in {ColY, ColA, ColZ} : SelConstruct(t, target)
    \/ \E k \in 0..MaxK : \E strict \in BOOLEAN : SelectKBest(k, strict)
    \/ \E n \in 1..MaxK : RecursiveFeatureElimination(n)
    \/ FeatureImportance
    \/ ReleaseSelection

SpecSelection == InitSelection /\ [][NextSelection]_vars

(***************************************************************************)
(* featurewise/encoding.py: FeatureEncoding and the caller's table.        *)
(* df is the table object of the caller, held the table self.df is bound   *)
(* to, and self.df tells which object that is: the caller's, or a new one. *)
(***************************************************************************)
\* The attributes of a FeatureEncoding: the table object self.df refers to.
FeatureEncoding(ref) == [class |-> "FeatureEncoding", df |-> ref]

\* The write of an encoder that keeps a copy of the caller's table.
write_to_copy(obj, caller, result) == caller

\* self.df[column] = ... : the write goes to the object self.df is bound
\* to, which the caller sees when it is the caller's own table.
write_through(obj, caller, result) == IF obj.df = "caller" THEN result ELSE caller

(***************************************************************************)
(* The caller's tables: a text column "a" of "x" and "y", and a column "b" *)
(* that is numeric or text, under a default or a shifted row index.        *)
(***************************************************************************)
AliasTables ==
    {Table(ix, <<Column(ColA, "text", c), b>>) :
        ix \in {RangeIndex(MaxRows), [r \in 1..MaxRows |-> r]},
        c \in [1..MaxRows -> {Text(<<"x">>), Text(<<"y">>)}],
        b \in BColumns}

InitAliasing ==
    /\ strategies = <<>>
    /\ fill_values = <<>>
    /\ df \in AliasTables
    /\ df_pre = NoTable
    /\ op = "idle"
    /\ err = "ok"
    /\ held = NoTable
    /\ held_pre = NoTable
    /\ columns = <<>>
    /\ encoded = NoneEncoded
    /\ NoTransformer

\* encoder = FeatureEncoding(df): a new encoder bound to the caller's table.
AliasConstruct ==
    /\ op = "idle"
    /\ op' = "FeatureEncoding"
    /\ self' = FeatureEncoding("caller")
    /\ held' = df
    /\ held_pre' = NoTable
    /\ df_pre' = df
    /\ columns' = <<>>
    /\ err' = "ok"
    /\ encoded' = [encoded EXCEPT !.held = encoded.caller]
    /\ UNCHANGED <<df, arg, ret, last_valid, strategies, fill_values>>

\* encoder.label_encode(cols)
AliasLabelEncode(cols) ==
    LET r == label_encode(held, cols)
    IN  /\ op = "idle"
        /\ self # None
        /\ op' = "label_encode"
        /\ columns' = cols
        /\ held_pre' = held
        /\ df_pre' = df
        /\ held' = r.df
        /\ df' = write_through(self, df, r.df)
        /\ err' = r.err
        /\ UNCHANGED <<self, encoded, arg, ret, last_valid, strategies, fill_values>>

\* encoder.one_hot_encode(cols): when it returns, self.df is a new table.
AliasOneHotEncode(cols) ==
    LET r == one_hot_encode(held, cols)
    IN  /\ op = "idle"
        /\ self # None
        /\ op' = "one_hot_encode"
        /\ columns' = cols
        /\ held_pre' = held
        /\ df_pre' = df
        /\ held' = r.df
        /\ self' = IF r.err = "ok" THEN FeatureEncoding("new") ELSE self
        /\ err' = r.err
        /\ UNCHANGED <<df, encoded, arg, ret, last_valid, strategies, fill_values>>

\* The call has returned (or raised): the columns of a label_encode that
\* returned count as encoded from now on, in the table it wrote.
ReleaseAliasing ==
    LET done == IF op = "label_encode" /\ err = "ok" THEN Range(columns) ELSE {}
    IN  /\ op \in {"FeatureEncoding", "label_encode", "one_hot_encode"}
        /\ op' = "idle"
        /\ held_pre' = NoTable
        /\ df_pre' = NoTable
        /\ columns' = <<>>
        /\ err' = "ok"
        /\ encoded' = [held |-> encoded.held \cup done,
                       caller |-> IF self.df = "caller" THEN encoded.caller \cup done
                                  ELSE encoded.caller,
                       any |-> encoded.any \cup done]
        /\ UNCHANGED <<df, held, self, arg, ret, last_valid, strategies, fill_values>>

NextAliasing ==
    \/ AliasConstruct
    \/ \E cols \in ColumnLists : AliasLabelEncode(cols)
    \/ \E cols \in ColumnLists : AliasOneHotEncode(cols)
    \/ ReleaseAliasing

SpecAliasing == InitAliasing /\ [][NextAliasing]_vars

(***************************************************************************)
(* Properties of MissingValueImputation.                                   *)
(***************************************************************************)
Cells(t, column) == GetColumn(t, column).cells

\* v is the mean of the non-missing values of cells (NaN when there is none).
IsMeanOf(v, cells) ==
    LET vals == dropna(cells)
        sum == SumSeq(vals)
    IN  IF vals = <<>> THEN isna(v)
        ELSE v.k = "num" /\ v.n * sum.d * Len(vals) = sum.n * v.d

\* The strategy can be computed on the column: what _compute_fill_value asks.
StrategyApplies(t, column, strategy) ==
    \/ strategy.k = "num"
    \/ strategy \in {Text(StrMean), Text(StrMedian)} /\ GetColumn(t, column).kind = "num"
    \/ strategy = Text(StrMode) /\ \E r \in DOMAIN Cells(t, column) : ~isna(Cells(t, column)[r])

Absent(i) == ~HasColumn(df_pre, strategies[i][1])

\* Every entry before entry j names a present column its strategy applies to.
EarlierEntriesFine(j) ==
    \A i \in 1..(j - 1) :
        HasColumn(df_pre, strategies[i][1])
        /\ StrategyApplies(df_pre, strategies[i][1], strategies[i][2])

\* C1: after a fit_transform that returns, every cell of a column with
\* strategy 'mean' that was missing before the call holds the mean of the
\* column's non-missing values of the table before the call.
C1_MeanFillsMissing ==
    (op = "fit_transform" /\ err = "ok") =>
        \A i \in DOMAIN strategies :
            strategies[i][2] = Text(StrMean) =>
                \A r \in DOMAIN Cells(df_pre, strategies[i][1]) :
                    isna(Cells(df_pre, strategies[i][1])[r]) =>
                        IsMeanOf(Cells(df, strategies[i][1])[r], Cells(df_pre, strategies[i][1]))

\* A missing cell of the 'mean' column n was filled with 3/2, the mean of 1 and 2.
C1_Witness ==
    /\ op = "fit_transform"
    /\ err = "ok"
    /\ \E i \in DOMAIN strategies :
        /\ strategies[i] = <<ColN, Text(StrMean)>>
        /\ \E r \in DOMAIN Cells(df_pre, ColN) :
            /\ isna(Cells(df_pre, ColN)[r])
            /\ Cells(df, ColN)[r] = Number(3, 2)

\* C2 as stated: with a configured column absent, fit and fit_transform end
\* with the column-not-present error and the table is as before.
C2_AbsentColumnNotPresentError ==
    (op \in {"fit", "fit_transform"} /\ \E i \in DOMAIN strategies : Absent(i)) =>
        (err = "NotPresent" /\ df = df_pre)

\* C2 amended: with a configured column absent, fit and fit_transform fail
\* and the table is as before, wherever the absent column is listed; the
\* error is the column-not-present one exactly when no entry listed before
\* the first absent column fails first.
C2_AbsentColumnFails ==
    (op \in {"fit", "fit_transform"} /\ \E i \in DOMAIN strategies : Absent(i)) =>
        LET j == CHOOSE i \in DOMAIN strategies : Absent(i) /\ \A m \in 1..(i - 1) : ~Absent(m)
        IN  /\ err # "ok"
            /\ df = df_pre
            /\ (err = "NotPresent") <=> EarlierEntriesFine(j)

\* fit_transform raised column-not-present on the second entry although the
\* first entry's column is there with a missing cell and a value to fill it.
C2_Witness ==
    /\ op = "fit_transform"
    /\ err = "NotPresent"
    /\ Len(strategies) = 2
    /\ Absent(2)
    /\ strategies[1] = <<ColN, Text(StrMean)>>
    /\ HasColumn(df_pre, ColN)
    /\ \E r \in DOMAIN Cells(df_pre, ColN) : isna(Cells(df_pre, ColN)[r])
    /\ \E r \in DOMAIN Cells(df_pre, ColN) : ~isna(Cells(df_pre, ColN)[r])

\* C3: a transform of a table that lacks a fitted column ends with the
\* not-found error and leaves the table as it was.
C3_TransformAbsentLeavesTable ==
    (op = "transform" /\ \E i \in DOMAIN fill_values : ~HasColumn(df_pre, fill_values[i][1])) =>
        (err = "NotPresent" /\ df = df_pre)

TextMeanEntry(i) ==
    /\ strategies[i][2] \in {Text(StrMean), Text(StrMedian)}
    /\ HasColumn(df_pre, strategies[i][1])
    /\ GetColumn(df_pre, strategies[i][1]).kind = "text"

\* C4 as stated: 'mean' or 'median' on a text column makes fit_transform
\* end with the type error, the table as before.
C4_TextMeanTypeError ==
    (op = "fit_transform" /\ \E i \in DOMAIN strategies : TextMeanEntry(i)) =>
        (err = "NotNumeric" /\ df = df_pre)

\* C4 amended: 'mean' or 'median' on a text column makes fit_transform fail
\* with the table as before, whatever entries precede it; the error is the
\* type error exactly when no entry listed before it fails first.
C4_TextMeanFails ==
    (op = "fit_transform" /\ \E i \in DOMAIN strategies : TextMeanEntry(i)) =>
        LET j == CHOOSE i \in DOMAIN strategies :
                     TextMeanEntry(i) /\ \A m \in 1..(i - 1) : ~TextMeanEntry(m)
        IN  /\ err # "ok"
            /\ df = df_pre
            /\ (err = "NotNumeric") <=> EarlierEntriesFine(j)

\* fit_transform raised the type error on the text column listed second; the
\* numeric column listed first has a missing cell and a value to fill it.
C4_Witness ==
    /\ op = "fit_transform"
    /\ err = "NotNumeric"
    /\ strategies = <<<<ColN, Text(StrMean)>>, <<ColT, Text(StrMean)>>>>
    /\ HasColumn(df_pre, ColN)
    /\ \E r \in DOMAIN Cells(df_pre, ColN) : isna(Cells(df_pre, ColN)[r])
    /\ \E r \in DOMAIN Cells(df_pre, ColN) : ~isna(Cells(df_pre, ColN)[r])

\* C5: transform (alone or inside fit_transform) keeps the rows, the columns
\* and their order, and changes a cell only if it was missing and lies in a
\* column that has a fill value.
C5_TransformTouchesOnlyMissing ==
    op \in {"transform", "fit_transform"} =>
        /\ df.index = df_pre.index
        /\ ColumnNames(df) = ColumnNames(df_pre)
        /\ \A i \in DOMAIN df.cols :
            /\ DOMAIN df.cols[i].cells = DOMAIN df_pre.cols[i].cells
            /\ \A r \in DOMAIN df.cols[i].cells :
                df.cols[i].cells[r] # df_pre.cols[i].cells[r] =>
                    /\ isna(df_pre.cols[i].cells[r])
                    /\ df.cols[i].name \in DictKeys(fill_values)

\* A transform filled a cell of a column that also holds a value, next to a
\* column without fill value that has a missing cell.
C5_Witness ==
    /\ op = "transform"
    /\ err = "ok"
    /\ \E i \in DOMAIN df.cols :
        /\ \E r \in DOMAIN df.cols[i].cells : df.cols[i].cells[r] # df_pre.cols[i].cells[r]
        /\ \E r \in DOMAIN df.cols[i].cells : ~isna(df_pre.cols[i].cells[r])
    /\ \E i \in DOMAIN df.cols :
        /\ df.cols[i].name \notin DictKeys(fill_values)
        /\ \E r \in DOMAIN df.cols[i].cells : isna(df.cols[i].cells[r])

\* C6: a fit that returns stores, for every entry, the value computed from
\* the table it was given; a transform leaves fill_values as they are and
\* every cell it changes receives the stored value of its column, all the
\* missing cells of the fitted columns when it returns.
C6_FillValuesFixedAtFit ==
    [][ /\ (op' = "fit" /\ err' = "ok") =>
            \A i \in DOMAIN strategies :
                DictGet(fill_values', strategies[i][1]) =
                    _compute_fill_value(df_pre', strategies[i][1], strategies[i][2]).value
        /\ op' = "transform" =>
            /\ fill_values' = fill_values
            /\ \A i \in DOMAIN df'.cols :
                \A r \in DOMAIN df'.cols[i].cells :
                    (/\ isna(df_pre'.cols[i].cells[r])
                     /\ df'.cols[i].name \in DictKeys(fill_values)
                     /\ (err' = "ok" \/ df'.cols[i].cells[r] # df_pre'.cols[i].cells[r])) =>
                        df'.cols[i].cells[r] = DictGet(fill_values, df'.cols[i].name)
      ]_vars

\* A transform filled a missing cell of column n with a stored mean that is
\* not the mean of the table it was given.
C6_Witness ==
    /\ op = "transform"
    /\ err = "ok"
    /\ <<ColN, Text(StrMean)>> \in Range(strategies)
    /\ HasColumn(df_pre, ColN)
    /\ \E r \in DOMAIN Cells(df_pre, ColN) :
        /\ isna(Cells(df_pre, ColN)[r])
        /\ ~isna(Cells(df, ColN)[r])
        /\ ~isna(mean(Cells(df_pre, ColN)))
        /\ Cells(df, ColN)[r] # mean(Cells(df_pre, ColN))

IsLiteral(strategy) == strategy \notin {Text(StrMean), Text(StrMedian), Text(StrMode)}

\* C7: when every strategy is a literal (a number or a text other than the
\* three names) and every configured column is in the table, fit returns and
\* stores each literal as its column's fill value.
C7_LiteralStored ==
    (/\ op = "fit"
     /\ \A i \in DOMAIN strategies :
            HasColumn(df_pre, strategies[i][1]) /\ IsLiteral(strategies[i][2])) =>
        /\ err = "ok"
        /\ \A i \in DOMAIN strategies :
            /\ strategies[i][1] \in DictKeys(fill_values)
            /\ DictGet(fill_values, strategies[i][1]) = strategies[i][2]

\* The numeric half of C7, which the code does satisfy.
NumberLiteralStored ==
    (/\ op = "fit"
     /\ \A i \in DOMAIN strategies :
            HasColumn(df_pre, strategies[i][1]) /\ IsNumber(strategies[i][2])) =>
        /\ err = "ok"
        /\ \A i \in DOMAIN strategies :
            DictGet(fill_values, strategies[i][1]) = strategies[i][2]

(***************************************************************************)
(* Properties of FeatureEncoding.                                          *)
(***************************************************************************)
\* Category w comes before category v: texts lexicographically, the
\* missing value after every text.
CatBefore(w, v) ==
    /\ ~isna(w)
    /\ isna(v) \/ StrLess(w.s, v.s)

\* The number of distinct categories of cells that come before v.
RankIn(cells, v) == Cardinality({w \in Range(cells) : CatBefore(w, v)})

\* C8: after a label_encode that returns, every listed column holds, row by
\* row, the rank of the row's category among the column's sorted distinct
\* categories: with k categories the codes are exactly 0..k-1, and they
\* depend on the column's values alone.
C8_LabelCodesAreRanks ==
    (op = "label_encode" /\ err = "ok") =>
        \A i \in DOMAIN columns :
            LET pre == Cells(held_pre, columns[i])
                post == Cells(held, columns[i])
                k == Cardinality(Range(pre))
            IN  /\ DOMAIN post = DOMAIN pre
                /\ \A r \in DOMAIN pre : post[r] = Number(RankIn(pre, pre[r]), 1)
                /\ Range(post) = {Number(c, 1) : c \in 0..(k - 1)}
                /\ \A r, q \in DOMAIN pre : (pre[r] = pre[q]) <=> (post[r] = post[q])

\* Column a held "y", "xy", "x" in this order and was encoded 2, 1, 0.
C8_Witness ==
    /\ op = "label_encode"
    /\ err = "ok"
    /\ ColA \in Range(columns)
    /\ SubSeq(Cells(held_pre, ColA), 1, 3) = <<Text(<<"y">>), Text(<<"x", "y">>), Text(<<"x">>)>>
    /\ SubSeq(Cells(held, ColA), 1, 3) = <<Number(2, 1), Number(1, 1), Number(0, 1)>>

NoRepeat(seq) == \A i, j \in DOMAIN seq : seq[i] = seq[j] => i = j

\* The categories of cells in sorted order, computed from CatBefore.
SortedCats(cells) ==
    [j \in 1..Cardinality(Range(cells)) |->
        CHOOSE v \in Range(cells) : RankIn(cells, v) = j - 1]

\* The indicator names one listed column is to give: <column>_<category>
\* for every category but the first.
IndicatorNames(column, cells) ==
    [j \in 1..(Cardinality(Range(cells)) - 1) |->
        column \o <<"_">> \o CategoryStr(SortedCats(cells)[j + 1])]

\* The columns of the held table that follow the columns kept from before.
AddedColumns ==
    SubSeq(held.cols, Len(drop(held_pre, columns).cols) + 1, Len(held.cols))

\* C9: a one_hot_encode that returns removes each listed text column and
\* adds, after the columns kept, k-1 columns per listed column named
\* <column>_<category> for every category but the first, holding only 0
\* and 1; in every row at most one indicator of a listed column is 1, and
\* the rows of the dropped category have all of them 0.
C9_OneHotIndicators ==
    (op = "one_hot_encode" /\ err = "ok" /\ NoRepeat(columns)) =>
        /\ \A i \in DOMAIN columns : ~HasColumn(held, columns[i])
        /\ [j \in DOMAIN AddedColumns |-> AddedColumns[j].name] =
               Flatten([i \in DOMAIN columns |->
                   IndicatorNames(columns[i], Cells(held_pre, columns[i]))])
        /\ \A j \in DOMAIN AddedColumns :
               Range(AddedColumns[j].cells) \subseteq {Number(0, 1), Number(1, 1)}
        /\ \A i \in DOMAIN columns :
               LET pre == Cells(held_pre, columns[i])
                   names == Range(IndicatorNames(columns[i], pre))
                   mine == {j \in DOMAIN AddedColumns : AddedColumns[j].name \in names}
               IN  \A r \in DOMAIN pre :
                       /\ \A j \in mine : r \in DOMAIN AddedColumns[j].cells
                       /\ Cardinality({j \in mine : AddedColumns[j].cells[r] = Number(1, 1)}) <= 1
                       /\ RankIn(pre, pre[r]) = 0 =>
                              \A j \in mine : AddedColumns[j].cells[r] = Number(0, 1)

\* C9 for a table held under the default index, where the code satisfies it.
OneHotIndicatorsDefaultIndex ==
    held_pre.index = RangeIndex(Len(held_pre.index)) => C9_OneHotIndicators

FailsValidation(t, column) ==
    ~HasColumn(t, column) \/ GetColumn(t, column).kind # "text"

\* C10: when a listed column is absent or not of text type, one_hot_encode
\* raises the validation error and the held table is exactly as before,
\* also when valid columns are listed before the failing one.
C10_OneHotAllOrNothing ==
    (op = "one_hot_encode" /\ \E i \in DOMAIN columns : FailsValidation(held_pre, columns[i])) =>
        /\ err \in {"NotPresent", "NotObject"}
        /\ held = held_pre

\* one_hot_encode(["a", "b"]) raised on the numeric column b; the text
\* column a listed first has at least two categories and is still there.
C10_Witness ==
    /\ op = "one_hot_encode"
    /\ columns = <<ColA, ColB>>
    /\ err = "NotObject"
    /\ HasColumn(held, ColA)
    /\ GetColumn(held_pre, ColA).kind = "text"
    /\ Cardinality(Range(Cells(held_pre, ColA))) >= 2
    /\ held = held_pre

\* The columns of the held table that were not listed, in their order.
KeptNames == ColumnNames(drop(held_pre, columns))

\* C11: one_hot_encode filters no row: whatever the row labels of the held
\* table, the result has the same rows in the same order, the columns that
\* were not encoded keep their values row for row, and the indicators of a
\* row describe the category that this same row had.
C11_OneHotKeepsRows ==
    (op = "one_hot_encode" /\ err = "ok" /\ NoRepeat(columns)) =>
        /\ held.index = held_pre.index
        /\ \A j \in DOMAIN KeptNames :
               /\ HasColumn(held, KeptNames[j])
               /\ Cells(held, KeptNames[j]) = Cells(held_pre, KeptNames[j])
        /\ \A i \in DOMAIN columns :
               LET pre == Cells(held_pre, columns[i])
                   cats == SortedCats(pre)
               IN  \A j \in 2..Len(cats) :
                       LET name == columns[i] \o <<"_">> \o CategoryStr(cats[j])
                       IN  /\ HasColumn(held, name)
                           /\ DOMAIN Cells(held, name) = DOMAIN pre
                           /\ \A r \in DOMAIN pre :
                                  (Cells(held, name)[r] = Number(1, 1)) <=> (pre[r] = cats[j])

\* C11 for a table held under the default index, where the code satisfies it.
OneHotKeepsRowsDefaultIndex ==
    held_pre.index = RangeIndex(Len(held_pre.index)) => C11_OneHotKeepsRows

(***************************************************************************)
(* Properties of PolynomialFeaturesTransformer.                            *)
(***************************************************************************)
\* The numeric columns of the table handed to the last call.
NumericSource == SelectSeq(df_pre.cols, LAMBDA c : c.kind = "num")

RECURSIVE Factorial(_)
Factorial(m) == IF m = 0 THEN 1 ELSE m * Factorial(m - 1)

Binomial(m, j) == Factorial(m) \div (Factorial(j) * Factorial(m - j))

RECURSIVE SumTo(_, _)
SumTo(e, i) == IF i = 0 THEN 0 ELSE e[i] + SumTo(e, i - 1)

\* The exponent vectors over n features of total degree 1..d.
Monomials(n, d) ==
    {e \in [1..n -> 0..d] : SumTo(e, n) >= 1 /\ SumTo(e, n) <= d}

RECURSIVE JoinBlank(_)
JoinBlank(seqs) ==
    IF Len(seqs) = 0 THEN <<>>
    ELSE IF Len(seqs) = 1 THEN seqs[1]
    ELSE seqs[1] \o <<" ">> \o JoinBlank(Tail(seqs))

\* The name of the monomial e: its columns of non-zero exponent with their
\* exponents (left out when 1).
MonomialName(src, e) ==
    LET used == SelectSeq([i \in DOMAIN src |-> i], LAMBDA i : e[i] > 0)
    IN  JoinBlank([u \in DOMAIN used |->
            IF e[used[u]] = 1 THEN src[used[u]].name
            ELSE src[used[u]].name \o <<"^">> \o IntStr(e[used[u]])])

\* The value of the monomial e in row r, over the first i columns.
RECURSIVE MonomialValue(_, _, _, _)
MonomialValue(src, e, r, i) ==
    IF i = 0 THEN Number(1, 1)
    ELSE LET v == src[i].cells[r]
             rest == MonomialValue(src, e, r, i - 1)
         IN  Number((v.n ^ e[i]) * rest.n, (v.d ^ e[i]) * rest.d)

\* C12: a fit_transform that returns gives a new table whose columns are
\* exactly the monomials of total degree 1..d of the n numeric columns of
\* the input, without a bias column, C(n+d, d) - 1 of them, each named by
\* its columns and exponents and holding in every row the product of the
\* row's values raised to the exponents; with degree 1 and one column the
\* result is that column unchanged; the input table is not modified.
C12_PolynomialMonomials ==
    (op = "poly_fit_transform" /\ err = "ok") =>
        LET src == NumericSource
            n == Len(src)
            d == self.degree.n
        IN  /\ df = df_pre
            /\ Len(ret.index) = Len(df_pre.index)
            /\ Len(ret.cols) = Binomial(n + d, d) - 1
            /\ Len(ret.cols) = Cardinality(Monomials(n, d))
            /\ NoRepeat(ColumnNames(ret))
            /\ \A e \in Monomials(n, d) :
                   \E j \in DOMAIN ret.cols :
                       /\ ret.cols[j].name = MonomialName(src, e)
                       /\ DOMAIN ret.cols[j].cells = DOMAIN df_pre.index
                       /\ \A r \in DOMAIN df_pre.index :
                              ret.cols[j].cells[r] = MonomialValue(src, e, r, n)
            /\ (n = 1 /\ d = 1) =>
                   /\ ColumnNames(ret) = <<src[1].name>>
                   /\ ret.cols[1].cells = src[1].cells

\* Degree 2 on x = 2, 1/2, 2 and y = 3, 4, 5 gave the five columns x, y,
\* x^2, x y, y^2, with x y = 6, 2, 10.
C12_Witness ==
    /\ op = "poly_fit_transform"
    /\ err = "ok"
    /\ self.degree = PyInt(2)
    /\ ColumnNames(df_pre) = <<ColX, ColY>>
    /\ SubSeq(Cells(df_pre, ColX), 1, 3) = <<Number(2, 1), Number(1, 2), Number(2, 1)>>
    /\ ColumnNames(ret) = <<ColX, ColY, <<"x", "^", "2">>, <<"x", " ", "y">>, <<"y", "^", "2">>>>
    /\ SubSeq(Cells(ret, <<"x", " ", "y">>), 1, 3) = <<Number(6, 1), Number(2, 1), Number(10, 1)>>
    /\ SubSeq(Cells(ret, <<"x", "^", "2">>), 1, 3) = <<Number(4, 1), Number(1, 4), Number(4, 1)>>

HasKind(kinds) == \E i \in DOMAIN df_pre.cols : df_pre.cols[i].kind \in kinds

\* C14: fit_transform raises for every table that has a column that is not
\* numeric (text, categorical, boolean or datetime) instead of dropping
\* that column, and raises as well when the table has no numeric column.
C14_NonNumericRejected ==
    op = "poly_fit_transform" =>
        /\ HasKind(OtherKinds) => (err # "ok" /\ ret = NoTable)
        /\ ~HasKind({"num"}) => (err # "ok" /\ ret = NoTable)

\* C14 without the boolean and datetime columns, as the code satisfies it.
TextOrCategoryRejected ==
    op = "poly_fit_transform" =>
        /\ HasKind({"text", "category"}) => (err # "ok" /\ ret = NoTable)
        /\ ~HasKind({"num"}) => (err # "ok" /\ ret = NoTable)

(***************************************************************************)
(* Properties of AggregationTransformer.                                   *)
(***************************************************************************)
\* The group-by values of row r of table t.
KeyAt(t, r) == [i \in DOMAIN self.groupby_cols |-> Cells(t, self.groupby_cols[i])[r]]

\* The rows of the input that carry the key.
RowsOf(key) == {r \in DOMAIN df_pre.index : KeyAt(df_pre, r) = key}

HasMissing(key) == \E i \in DOMAIN key : isna(key[i])

\* The sum of the non-missing cells in the rows S.
RECURSIVE SumOver(_, _)
SumOver(cells, S) ==
    IF S = {} THEN Number(0, 1)
    ELSE LET r == CHOOSE q \in S : TRUE
             rest == SumOver(cells, S \ {r})
         IN  IF isna(cells[r]) THEN rest
             ELSE Number(cells[r].n * rest.d + rest.n * cells[r].d, cells[r].d * rest.d)

\* v is the reduction named func of the cells in the rows S.
IsReduction(v, func, cells, S) ==
    LET known == {r \in S : ~isna(cells[r])}
        sum == SumOver(cells, S)
    IN  CASE func = Text(StrSum) -> v = sum
          [] func = Text(StrMean) ->
                 IF known = {} THEN isna(v)
                 ELSE v = Number(sum.n, sum.d * Cardinality(known))
          [] func = Text(StrMax) ->
                 IF known = {} THEN isna(v)
                 ELSE /\ \E r \in known : v = cells[r]
                      /\ \A r \in known : ~ValLess(v, cells[r])
          [] OTHER -> FALSE

\* The result has one row for each of the keys and no other row, the
\* group-by columns are columns of it, every mapped column holds the named
\* reduction over the rows of the key, and the input table is as it was.
AggregatesOver(keys) ==
    /\ df = df_pre
    /\ \A i \in DOMAIN self.groupby_cols : HasColumn(ret, self.groupby_cols[i])
    /\ \A key \in keys : Cardinality({j \in DOMAIN ret.index : KeyAt(ret, j) = key}) = 1
    /\ \A j \in DOMAIN ret.index : KeyAt(ret, j) \in keys
    /\ \A i \in DOMAIN self.agg_funcs :
           /\ HasColumn(ret, self.agg_funcs[i][1])
           /\ \A j \in DOMAIN ret.index :
                  IsReduction(Cells(ret, self.agg_funcs[i][1])[j], self.agg_funcs[i][2],
                              Cells(df_pre, self.agg_funcs[i][1]), RowsOf(KeyAt(ret, j)))

\* C15: a fit_transform that returns has exactly one row per distinct
\* combination of group-by values occurring in the input, each mapped
\* column holding its named reduction over the rows of the group, the
\* group-by columns being regular columns; the input table is unchanged.
C15_OneRowPerGroup ==
    (op = "agg_fit_transform" /\ err = "ok") =>
        AggregatesOver({KeyAt(df_pre, r) : r \in DOMAIN df_pre.index})

\* C15 amended: the same with one row per distinct combination of
\* group-by values none of which is missing; the rows with a missing
\* group-by value are in no group.
C15_OneRowPerKnownGroup ==
    (op = "agg_fit_transform" /\ err = "ok") =>
        AggregatesOver({key \in {KeyAt(df_pre, r) : r \in DOMAIN df_pre.index} : ~HasMissing(key)})

\* Grouped by g with sum of x: the rows (a, 1), (missing, 2), (a, 3) gave
\* the one row (a, 4).
C15_Witness ==
    /\ op = "agg_fit_transform"
    /\ err = "ok"
    /\ self.groupby_cols = <<ColG>>
    /\ self.agg_funcs = <<<<ColX, Text(StrSum)>>>>
    /\ SubSeq(Cells(df_pre, ColG), 1, 3) = <<Text(<<"a">>), NaN, Text(<<"a">>)>>
    /\ SubSeq(Cells(df_pre, ColX), 1, 3) = <<Number(1, 1), Number(2, 1), Number(3, 1)>>
    /\ Len(df_pre.index) = 3
    /\ ColumnNames(ret) = <<ColG, ColX>>
    /\ Cells(ret, ColG) = <<Text(<<"a">>)>>
    /\ Cells(ret, ColX) = <<Number(4, 1)>>

\* Column names of the list or dict entries that the table lacks.
AbsentGroupby == \E i \in DOMAIN self.groupby_cols : ~HasColumn(df_pre, self.groupby_cols[i])
AbsentAggKey == \E i \in DOMAIN self.agg_funcs : ~HasColumn(df_pre, self.agg_funcs[i][1])

\* C16: the existence of the columns is checked by fit_transform and not
\* by the constructor: the constructor succeeds for any list of group-by
\* columns and any dict, and fit_transform raises the column-not-present
\* error, returns no table and leaves the input table unchanged whenever
\* a group-by column or a key of the dict is not a column of the table.
C16_ExistenceCheckedAtTransform ==
    /\ (op = "AggregationTransformer" /\ arg[1].k = "list" /\ arg[2].k = "dict") =>
           /\ err = "ok"
           /\ self = AggregationTransformer(arg[1].s, arg[2].s)
    /\ (op = "agg_fit_transform" /\ (AbsentGroupby \/ AbsentAggKey)) =>
           /\ err \in {"GroupbyNotPresent", "AggNotPresent"}
           /\ ret = NoTable
           /\ df = df_pre

\* A transformer built with the group-by list [g, z] raised when it was
\* handed a table without column z.
C16_Witness ==
    /\ op = "agg_fit_transform"
    /\ self.groupby_cols = <<ColG, ColZ>>
    /\ HasColumn(df_pre, ColG)
    /\ ~HasColumn(df_pre, ColZ)
    /\ err = "GroupbyNotPresent"
    /\ ret = NoTable
    /\ df = df_pre

(***************************************************************************)
(* Properties of BinningTransformer.                                       *)
(***************************************************************************)
BinCall == op \in {"bin_fit_transform", "bin_fit_transform_again"}

\* The targets whose binned column the table did not have before the call.
NewTargets ==
    {self.binning_cols[i] : i \in
        {j \in DOMAIN self.binning_cols : ~HasColumn(df_pre, binned_name(self.binning_cols[j]))}}

\* C17: a fit_transform that returns leaves in the caller's table one
\* column <column>_binned per target, and every column the table had
\* before the call, the targets included, at its place with its values;
\* called again on the result it overwrites the same _binned columns, so
\* that the table has no more columns than after the first call.
C17_BinnedColumnsAdded ==
    (BinCall /\ err = "ok") =>
        /\ ret = df
        /\ \A i \in DOMAIN self.binning_cols :
               /\ HasColumn(df, binned_name(self.binning_cols[i]))
               /\ GetColumn(df, binned_name(self.binning_cols[i])).kind = "category"
               /\ DOMAIN Cells(df, binned_name(self.binning_cols[i])) = DOMAIN df_pre.index
        /\ SubSeq(df.cols, 1, Len(df_pre.cols)) = df_pre.cols
        /\ Len(df.cols) = Len(df_pre.cols) + Cardinality(NewTargets)
        /\ NoRepeat(ColumnNames(df))
        /\ op = "bin_fit_transform_again" => ColumnNames(df) = ColumnNames(df_pre)

\* The second equal-width fit_transform with 2 bins on the targets x and y
\* returned: the table has the columns x, y, t, x_binned, y_binned, and
\* x = 1, 2, missing is binned 0, 1, missing.
C17_Witness ==
    /\ op = "bin_fit_transform_again"
    /\ err = "ok"
    /\ self.binning_cols = <<ColX, ColY>>
    /\ self.strategy = Text(StrEqualWidth)
    /\ self.bins = PyInt(2)
    /\ ColumnNames(df) = <<ColX, ColY, ColT, binned_name(ColX), binned_name(ColY)>>
    /\ SubSeq(Cells(df, ColX), 1, 3) = <<Number(1, 1), Number(2, 1), NaN>>
    /\ SubSeq(Cells(df, binned_name(ColX)), 1, 3) = <<Bin(0), Bin(1), NaN>>
    /\ Len(df.index) = 3

\* Custom boundaries that are absent, not a list, or fewer than two.
BadCustomBins(edges) == edges = None \/ edges.k # "list" \/ Len(edges.s) < 2

\* C18: with strategy 'custom', fit_transform raises and adds no column
\* whenever the custom boundaries are absent or fewer than two, for every
\* list of target columns.
C18_CustomNeedsBoundaries ==
    (BinCall /\ self.strategy = Text(StrCustom) /\ BadCustomBins(self.custom_bins)) =>
        /\ err # "ok"
        /\ ret = NoTable
        /\ df = df_pre

\* C18 for the lists that name at least one target, as the code satisfies it.
CustomNeedsBoundariesSomeTarget ==
    self # None => (self.binning_cols # <<>> => C18_CustomNeedsBoundaries)

\* C19: the constructor raises when the strategy is not 'equal_width',
\* 'equal_frequency' or 'custom', and when the strategy is 'custom' and the
\* custom boundaries are absent or fewer than two; no transformer is built.
C19_ConstructorValidates ==
    (/\ op = "BinningTransformer"
     /\ arg[1].k = "list"
     /\ \/ arg[2] \notin {Text(StrEqualWidth), Text(StrEqualFrequency), Text(StrCustom)}
        \/ (arg[2] = Text(StrCustom) /\ BadCustomBins(arg[4]))) =>
        /\ err # "ok"
        /\ self = None

\* C19 for the strategy name alone, as the code satisfies it.
InvalidStrategyRejected ==
    (/\ op = "BinningTransformer"
     /\ arg[2] \notin {Text(StrEqualWidth), Text(StrEqualFrequency), Text(StrCustom)}) =>
        /\ err \in {"NotList", "InvalidStrategy"}
        /\ self = None

\* Target i cannot be binned in the table handed to the call: the column
\* is absent or not numeric, the custom boundaries are absent, too few,
\* decreasing or repeated, or the number of bins is below 1.
TargetFails(i) ==
    \/ ~HasColumn(df_pre, self.binning_cols[i])
    \/ GetColumn(df_pre, self.binning_cols[i]).kind # "num"
    \/ /\ self.strategy = Text(StrCustom)
       /\ \/ BadCustomBins(self.custom_bins)
          \/ \E a, b \in DOMAIN self.custom_bins.s :
                 a < b /\ ~ValLess(self.custom_bins.s[a], self.custom_bins.s[b])
    \/ /\ self.strategy # Text(StrCustom)
       /\ self.bins.n < 1

\* C20: binning goes column by column and nothing is rolled back:
\* fit_transform raises exactly when some target cannot be binned, and then
\* the caller's table has the _binned columns of the targets listed before
\* the first such target, none for that target or any target after it, and
\* its other columns as before.
C20_NoRollback ==
    BinCall =>
        /\ (err # "ok") <=> (\E i \in DOMAIN self.binning_cols : TargetFails(i))
        /\ err # "ok" =>
               \E i \in DOMAIN self.binning_cols :
                   /\ TargetFails(i)
                   /\ \A j \in 1..(i - 1) :
                          /\ ~TargetFails(j)
                          /\ HasColumn(df, binned_name(self.binning_cols[j]))
                          /\ DOMAIN Cells(df, binned_name(self.binning_cols[j])) = DOMAIN df_pre.index
                   /\ \A j \in i..Len(self.binning_cols) :
                          ~HasColumn(df, binned_name(self.binning_cols[j]))
                   /\ SubSeq(df.cols, 1, Len(df_pre.cols)) = df_pre.cols
                   /\ ret = NoTable

\* Equal-frequency binning of the targets x, t, y raised on the text column
\* t: the table has x_binned, and neither t_binned nor y_binned.
C20_Witness ==
    /\ op = "bin_fit_transform"
    /\ err = "BinFailed"
    /\ self.binning_cols = <<ColX, ColT, ColY>>
    /\ self.strategy = Text(StrEqualFrequency)
    /\ ColumnNames(df_pre) = <<ColX, ColY, ColT>>
    /\ ColumnNames(df) = <<ColX, ColY, ColT, binned_name(ColX)>>

(***************************************************************************)
(* Properties of FeatureSelection.                                         *)
(***************************************************************************)
\* The names of the columns of the caller's table but the target.
NonTarget == SelectSeq(ColumnNames(df), LAMBDA name : name # self.target)

\* C21: the constructor raises when the target is not a column of the table
\* and builds a selector otherwise; select_k_best,
\* recursive_feature_elimination and feature_importance, when they return,
\* give a table of the same rows whose columns are columns of the original
\* table other than the target, each at most once and with its original
\* cells, and feature_importance gives all of them, each exactly once, in
\* an order of non-increasing importance; the original table is unchanged.
C21_SelectionIsSubset ==
    /\ op = "FeatureSelection" =>
           /\ df = df_pre
           /\ IF HasColumn(df, arg[1])
              THEN err = "ok" /\ self # None /\ self.df = df /\ self.target = arg[1]
              ELSE err = "NotPresent" /\ self = None
    /\ (op \in {"select_k_best", "recursive_feature_elimination", "feature_importance"}
            /\ err = "ok") =>
           /\ df = df_pre
           /\ ret.index = df.index
           /\ NoRepeat(ColumnNames(ret))
           /\ \A j \in DOMAIN ret.cols :
                  /\ ret.cols[j].name # self.target
                  /\ HasColumn(df, ret.cols[j].name)
                  /\ GetColumn(df, ret.cols[j].name) = ret.cols[j]
    /\ (op = "feature_importance" /\ err = "ok") =>
           /\ Range(ColumnNames(ret)) = Range(NonTarget)
           /\ Len(ret.cols) = Len(NonTarget)
           /\ \A i, j \in DOMAIN ret.cols :
                  i < j => arg[1][IndexOf(NonTarget, ret.cols[i].name)]
                               >= arg[1][IndexOf(NonTarget, ret.cols[j].name)]

\* feature_importance on the table a, b, x, y with target y and the
\* importances 1, 2, 0 returned the columns b, a, x.
C21_Witness ==
    /\ op = "feature_importance"
    /\ err = "ok"
    /\ ColumnNames(df) = <<ColA, ColB, ColX, ColY>>
    /\ self.target = ColY
    /\ arg[1] = <<1, 2, 0>>
    /\ ColumnNames(ret) = <<ColB, ColA, ColX>>
    /\ Cells(ret, ColB) = Cells(df, ColB)
    /\ df.index # RangeIndex(Len(df.index))

(***************************************************************************)
(* Further properties of FeatureEncoding.                                  *)
(***************************************************************************)
\* Listed column i cannot be label-encoded when its turn comes: it is
\* absent, not of text type, or was encoded as an earlier entry of the list.
EncodeFails(i) ==
    \/ ~HasColumn(held_pre, columns[i])
    \/ GetColumn(held_pre, columns[i]).kind # "text"
    \/ \E j \in 1..(i - 1) : columns[j] = columns[i]

\* C22: label_encode checks and encodes one column at a time: it raises
\* exactly when some listed column is absent or not of text type at its
\* turn, and then the columns listed before the first such column hold
\* the integer codes of their categories, while every other column of the
\* held table, the failing column, the columns listed later and the
\* unlisted ones, is as it was.
C22_LabelEncodePartial ==
    op = "label_encode" =>
        /\ (err # "ok") <=> (\E i \in DOMAIN columns : EncodeFails(i))
        /\ err # "ok" =>
               \E i \in DOMAIN columns :
                   /\ EncodeFails(i)
                   /\ \A j \in 1..(i - 1) : ~EncodeFails(j)
                   /\ err = IF HasColumn(held_pre, columns[i]) THEN "NotObject" ELSE "NotPresent"
                   /\ held.index = held_pre.index
                   /\ ColumnNames(held) = ColumnNames(held_pre)
                   /\ \A c \in DOMAIN held_pre.cols :
                          IF held_pre.cols[c].name \in {columns[j] : j \in 1..(i - 1)}
                          THEN /\ held.cols[c].kind = "num"
                               /\ held.cols[c].cells =
                                      [r \in DOMAIN held_pre.cols[c].cells |->
                                          Number(RankIn(held_pre.cols[c].cells,
                                                        held_pre.cols[c].cells[r]), 1)]
                          ELSE held.cols[c] = held_pre.cols[c]

\* label_encode(["a", "b"]) raised on the numeric column b after it had
\* replaced the texts "y", "x", "y" of column a by 1, 0, 1.
C22_Witness ==
    /\ op = "label_encode"
    /\ columns = <<ColA, ColB>>
    /\ err = "NotObject"
    /\ GetColumn(held_pre, ColB).kind = "num"
    /\ SubSeq(Cells(held_pre, ColA), 1, 3) = <<Text(<<"y">>), Text(<<"x">>), Text(<<"y">>)>>
    /\ SubSeq(Cells(held, ColA), 1, 3) = <<Number(1, 1), Number(0, 1), Number(1, 1)>>
    /\ Cells(held, ColB) = Cells(held_pre, ColB)

(***************************************************************************)
(* FeatureEncoding and the table of its caller.                            *)
(***************************************************************************)
\* The listed column at position i was label-encoded by a call in done that
\* returned, and this call must refuse it and leave its codes in place.
RefusesEncoded(done) ==
    \A i \in DOMAIN columns :
        columns[i] \in done =>
            /\ err # "ok"
            /\ HasColumn(held, columns[i])
            /\ GetColumn(held, columns[i]).kind = "num"
            /\ Cells(held, columns[i]) = Cells(held_pre, columns[i])
            /\ i = 1 => (err = "NotObject" /\ held = held_pre)

\* one_hot_encode that returns leaves the encoder on a new table and the
\* caller's table as it was.
OneHotRebinds ==
    (op = "one_hot_encode" /\ err = "ok") =>
        /\ self.df = "new"
        /\ df = df_pre

\* C23 as stated: label_encode always writes into the table passed to the
\* constructor, so the held table and the caller's table are one object at
\* every label_encode, and a column label-encoded by any earlier call is
\* refused (not of text type) by a later label_encode on the same encoder
\* or on a new encoder built from the caller's table, its codes staying in
\* place; one_hot_encode rebinds the encoder and leaves the caller's table.
C23_LabelEncodeWritesCallerTable ==
    /\ op = "label_encode" =>
           /\ self.df = "caller"
           /\ held = df
           /\ RefusesEncoded(encoded.any)
    /\ OneHotRebinds

\* C23, amended: label_encode writes into the table the encoder holds, which
\* is the caller's table until a one_hot_encode on this encoder has
\* returned, and from then on a new table the caller does not see.  A column
\* label-encoded on this encoder, or label-encoded into the caller's table
\* when the encoder still holds that table, is refused with its codes left
\* in place; one_hot_encode rebinds the encoder and leaves the caller's
\* table.
C23_LabelEncodeWritesHeldTable ==
    /\ (op = "label_encode" /\ self.df = "caller") =>
           /\ held = df
           /\ RefusesEncoded(encoded.held \cup encoded.caller)
    /\ (op = "label_encode" /\ self.df = "new") =>
           /\ df = df_pre
           /\ RefusesEncoded(encoded.held)
    /\ OneHotRebinds

\* A second label_encode of column a, already encoded into the caller's
\* table, is refused by an encoder that holds the caller's table.
C23_Witness ==
    /\ op = "label_encode"
    /\ err = "NotObject"
    /\ columns = <<ColA>>
    /\ ColA \in encoded.caller
    /\ self.df = "caller"
    /\ held = df
    /\ GetColumn(df, ColA).kind = "num"
    /\ Cells(df, ColA)[1] = Number(1, 1)

====
